---- MODULE Spec2Model ----
(***************************************************************************)
(* Stripe webhook reconciliation (src/app/api/routes.py): the succeeded    *)
(* and failed handlers, the webhook endpoint that admits and dispatches    *)
(* events, and the create-payment-intent endpoint, all working on the      *)
(* bookings and payments tables of the store.  Every store round trip is   *)
(* one step of a worker, so that concurrent requests interleave between    *)
(* the read and the write of a handler.  The columns created_at and        *)
(* updated_at ('now()') are wall-clock values and are not modelled.        *)
(***************************************************************************)
EXTENDS Integers, Sequences, FiniteSets, TLC

\* ------------------------------------------------------------------ bounds
MaxFaults == 1
MaxPayments == 2

\* ------------------------------------------------------------- value sets
None == "None"
NoId == 0
Workers == {"w1", "w2"}
BookingIds == {"B1", "B2"}
\* ids Stripe gives to the payment intents this service creates
CreatedIntentIds == {"pi_1"}

Dollars(units, cents) == [units |-> units, cents |-> cents]

\* payment_intent['amount'] / 100.0 : minor units to a decimal amount
DivideBy100(minor) == Dollars(minor \div 100, minor % 100)

\* float(booking_data['total_price']) ; "ValueError" when not numeric
ToFloat(text) ==
    CASE text = "50.00" -> <<Dollars(50, 0)>>
      [] text = "40.50" -> <<Dollars(40, 50)>>
      [] OTHER -> <<>>

\* abs(db_amount - amount) > 0.01
AmountMismatch(db_amount, amount) ==
    LET d == (db_amount.units * 100 + db_amount.cents)
             - (amount.units * 100 + amount.cents)
        abs == IF d < 0 THEN 0 - d ELSE d
    IN  abs > 1

Has(dict, key) == key \in DOMAIN dict

\* dict merged with the given fields (an UPDATE ... SET, or dict literal)
Merge(row, fields) ==
    [k \in DOMAIN row \cup DOMAIN fields |->
        IF k \in DOMAIN fields THEN fields[k] ELSE row[k]]

\* ------------------------------------------------------------- the inputs
IntentShapes ==
    { [id |-> "pi_1", amount |-> 5000, currency |-> "usd"],
      [id |-> "pi_2", amount |-> 4050, currency |-> "eur"] }

\* a failed event may lack amount and currency (routes.py:131-132)
PartialShapes == { [id |-> "pi_2"] }

Metadatas ==
    { [booking_id |-> b, user_id |-> "u2"] : b \in BookingIds }
    \cup { [user_id |-> "u2"] }

EventObjects(shapes) ==
    { Merge(s, [metadata |-> m]) : s \in shapes, m \in Metadatas }

Events ==
    { [type |-> "payment_intent.succeeded", object |-> o] :
          o \in EventObjects(IntentShapes) }
    \cup { [type |-> "payment_intent.payment_failed", object |-> o] :
          o \in EventObjects(IntentShapes \cup PartialShapes) }
    \cup { [type |-> "charge.refunded",
            object |-> [id |-> "ch_1", metadata |-> [user_id |-> "u2"]]] }

\* outcome of stripe.Webhook.construct_event
AdmissionOutcomes ==
    {"valid", "ValueError", "SignatureVerificationError", "Exception"}

\* what the body of a request that fails verification would have dispatched
UnverifiedEvents ==
    { e \in Events :
        \/ e.type = "charge.refunded"
        \/ /\ e.type = "payment_intent.succeeded"
           /\ e.object.id = "pi_1"
           /\ Has(e.object.metadata, "booking_id")
           /\ e.object.metadata.booking_id = "B1" }

WebhookRequests ==
    { [admission |-> a, event |-> e] : a \in {"valid"}, e \in Events }
    \cup { [admission |-> a, event |-> e] :
             a \in AdmissionOutcomes \ {"valid"}, e \in UnverifiedEvents }

IntentRequests ==
    { [bookingId |-> b, amount |-> Dollars(50, 0), currency |-> "usd",
       user_id |-> "u1"] : b \in BookingIds }

\* ----------------------------------------------------------- ledger store
\* Booking rows the service can start from: the booking exists before this
\* subsystem runs, pending and without a payment.
InitialBookingRows ==
    { [user_id |-> u, total_price |-> p, status |-> "pending",
       payment_id |-> NoId] :
          u \in {"u1"}, p \in {"50.00", "abc", None} }
    \cup { [user_id |-> None, total_price |-> "50.00", status |-> "pending",
            payment_id |-> NoId] }

Ledger(b, p) == [bookings |-> b, payments |-> p]

\* select(columns).eq('id', booking_id): zero or one row, the named columns
SelectBooking(L, columns, booking_id) ==
    IF booking_id \in DOMAIN L.bookings
    THEN << [c \in columns |->
               IF c = "id" THEN booking_id ELSE L.bookings[booking_id][c]] >>
    ELSE <<>>

\* select('id').eq('booking_id', booking_id): the ids of the matching rows
SelectPaymentIds(L, booking_id) ==
    { i \in 1..Len(L.payments) : L.payments[i].booking_id = booking_id }

\* the payments table without the uniqueness constraint
NoUniqueBookingId(L, row) == TRUE

\* the uniqueness constraint on payments.booking_id
UniqueBookingId(L, row) == SelectPaymentIds(L, row.booking_id) = {}

\* the foreign key payments.booking_id -> bookings.id
ForeignKeyHolds(L, row) == row.booking_id \in DOMAIN L.bookings

InsertAccepted(L, row) == UniqueBookingId(L, row) /\ ForeignKeyHolds(L, row)

\* insert(row): the store assigns the id, here the position of the row
InsertPayment(L, row) == Ledger(L.bookings, Append(L.payments, row))

\* update(fields).eq('id', payment_id)
UpdatePaymentById(L, payment_id, fields) ==
    Ledger(L.bookings,
           [i \in 1..Len(L.payments) |->
               IF i = payment_id THEN Merge(L.payments[i], fields)
               ELSE L.payments[i]])

\* update(fields).eq('booking_id', booking_id)
UpdatePaymentsByBooking(L, booking_id, fields) ==
    Ledger(L.bookings,
           [i \in 1..Len(L.payments) |->
               IF L.payments[i].booking_id = booking_id
               THEN Merge(L.payments[i], fields) ELSE L.payments[i]])

\* update(fields).eq('id', booking_id): no row matched, nothing written
UpdateBooking(L, booking_id, fields) ==
    IF booking_id \in DOMAIN L.bookings
    THEN Ledger([L.bookings EXCEPT ![booking_id] = Merge(@, fields)],
                L.payments)
    ELSE L

\* ------------------------------------------------------------ the workers
VARIABLES bookings, payments, task, webhook_secret, faults

vars == <<bookings, payments, task, webhook_secret, faults>>

NoException == [type |-> "none", status_code |-> 0, detail |-> ""]
HTTPException(status_code, detail) ==
    [type |-> "HTTPException", status_code |-> status_code, detail |-> detail]
\* any exception that is not an HTTPException (store error, TypeError, ...)
Exception == [type |-> "Exception", status_code |-> 0, detail |-> "str(e)"]

NoResponse ==
    [status_code |-> 0, detail |-> "", event_type |-> "", processed |-> FALSE]
JSONResponse(status_code, detail, event_type, processed) ==
    [status_code |-> status_code, detail |-> detail,
     event_type |-> event_type, processed |-> processed]

NoLocals ==
    [booking_id |-> None, stripe_payment_intent_id |-> None,
     amount |-> Dollars(0, 0), currency |-> None]

IdleTask ==
    [op |-> "idle", pc |-> "idle", request |-> [none |-> TRUE],
     locals |-> NoLocals, booking_data |-> <<>>, payment_record_id |-> NoId,
     warning |-> "none", branch |-> "none", rejected |-> FALSE,
     raised |-> NoException, result |-> FALSE, resp |-> NoResponse]

\* the outcomes of one store round trip: it answers, it raises without
\* having written, or (a write) it raises after the row was written
StoreOutcomes == {"ok", "raise", "lost"}
ReadOutcomes == {"ok", "raise"}

Raise(t, exc) == [t EXCEPT !.pc = "w_except", !.raised = exc]
Return(t, value) == [t EXCEPT !.pc = "w_return", !.result = value]
Goto(t, label) == [t EXCEPT !.pc = label]
StepResult(L, t) == [L |-> L, t |-> t]

\* ------------------------------------- _handle_payment_intent_succeeded
\* the guard on booking_id left out: the handler goes on to the store
SucceededParseUnguarded(t) ==
    LET payment_intent == t.request.event.object
        booking_id == IF Has(payment_intent.metadata, "booking_id")
                      THEN payment_intent.metadata.booking_id ELSE None
        locals == [booking_id |-> booking_id,
                   stripe_payment_intent_id |-> payment_intent.id,
                   amount |-> DivideBy100(payment_intent.amount),
                   currency |-> payment_intent.currency]
    IN  Goto([t EXCEPT !.locals = locals], "s_fetch_booking")

SucceededParse(t) ==
    LET payment_intent == t.request.event.object
        booking_id == IF Has(payment_intent.metadata, "booking_id")
                      THEN payment_intent.metadata.booking_id ELSE None
        locals == [booking_id |-> booking_id,
                   stripe_payment_intent_id |-> payment_intent.id,
                   amount |-> DivideBy100(payment_intent.amount),
                   currency |-> payment_intent.currency]
        t1 == [t EXCEPT !.locals = locals]
    IN  IF booking_id = None
        THEN Return(t1, TRUE)
        ELSE Goto(t1, "s_fetch_booking")

\* the advisory comparison of Booking.total_price with the event amount
AmountWarning(booking_data, amount) ==
    IF booking_data.total_price = None THEN "none"
    ELSE IF ToFloat(booking_data.total_price) = <<>> THEN "not_convertible"
    ELSE IF AmountMismatch(ToFloat(booking_data.total_price)[1], amount)
         THEN "mismatch" ELSE "none"

\* a Booking that is not found taken for one without user and price
SucceededFetchBookingAssumingFound(L, t, o) ==
    LET found == SelectBooking(L, {"id", "user_id", "total_price"},
                                t.locals.booking_id)
        booking_data ==
            IF found = <<>>
            THEN << [id |-> t.locals.booking_id, user_id |-> None,
                     total_price |-> None] >>
            ELSE found
    IN  IF o # "ok"
        THEN StepResult(L, Raise(t,
                 HTTPException(500, "Unexpected error fetching booking")))
        ELSE StepResult(L,
                 [t EXCEPT !.pc = "s_fetch_payment",
                           !.booking_data = booking_data,
                           !.warning = AmountWarning(booking_data[1],
                                                     t.locals.amount)])

\* the comparison of the amounts enforced: a mismatch ends the handler
SucceededFetchBookingEnforcingAmount(L, t, o) ==
    LET booking_data == SelectBooking(L, {"id", "user_id", "total_price"},
                                       t.locals.booking_id)
    IN  IF o # "ok"
        THEN StepResult(L, Raise(t,
                 HTTPException(500, "Unexpected error fetching booking")))
        ELSE IF booking_data = <<>>
        THEN StepResult(L, Return(t, TRUE))
        ELSE IF AmountWarning(booking_data[1], t.locals.amount) # "none"
        THEN StepResult(L, Raise(t, HTTPException(400, "Amount mismatch")))
        ELSE StepResult(L,
                 [t EXCEPT !.pc = "s_fetch_payment",
                           !.booking_data = booking_data,
                           !.warning = "none"])

SucceededFetchBooking(L, t, o) ==
    LET booking_data == SelectBooking(L, {"id", "user_id", "total_price"},
                                       t.locals.booking_id)
    IN  IF o # "ok"
        THEN StepResult(L, Raise(t,
                 HTTPException(500, "Unexpected error fetching booking")))
        ELSE IF booking_data = <<>>
        THEN StepResult(L, Return(t, TRUE))
        ELSE StepResult(L,
                 [t EXCEPT !.pc = "s_fetch_payment",
                           !.booking_data = booking_data,
                           !.warning = AmountWarning(booking_data[1],
                                                     t.locals.amount)])

\* the lookup of the Payment row left out: the handler always inserts
SucceededAlwaysInsert(L, t, o) ==
    IF o # "ok"
    THEN StepResult(L, Raise(t,
             HTTPException(500, "Unexpected error fetching payment")))
    ELSE StepResult(L, Goto(t, "s_insert_payment"))

\* the Payment row that is found left as it is: the handler goes on to
\* the Booking update
SucceededFetchPaymentSkippingWrite(L, t, o) ==
    LET found == SelectPaymentIds(L, t.locals.booking_id)
    IN  IF o # "ok" \/ Cardinality(found) > 1
        THEN StepResult(L, Raise(t,
                 HTTPException(500, "Unexpected error fetching payment")))
        ELSE IF found # {}
        THEN StepResult(L,
                 [t EXCEPT !.pc = "s_update_booking",
                           !.payment_record_id = CHOOSE i \in found : TRUE])
        ELSE StepResult(L, Goto(t, "s_insert_payment"))

SucceededFetchPayment(L, t, o) ==
    LET found == SelectPaymentIds(L, t.locals.booking_id)
    IN  IF o # "ok" \/ Cardinality(found) > 1
        THEN StepResult(L, Raise(t,
                 HTTPException(500, "Unexpected error fetching payment")))
        ELSE IF found # {}
        THEN StepResult(L,
                 [t EXCEPT !.pc = "s_update_payment",
                           !.payment_record_id = CHOOSE i \in found : TRUE])
        ELSE StepResult(L, Goto(t, "s_insert_payment"))

SucceededUpdatePayment(L, t, o) ==
    LET written ==
            UpdatePaymentById(L, t.payment_record_id,
                [status |-> "succeeded",
                 gateway_payment_id |-> t.locals.stripe_payment_intent_id,
                 amount |-> t.locals.amount,
                 currency |-> t.locals.currency])
        t1 == [t EXCEPT !.branch = "update"]
    IN  CASE o = "ok" -> StepResult(written, Goto(t1, "s_update_booking"))
          [] o = "lost" -> StepResult(written, Raise(t1, Exception))
          [] OTHER -> StepResult(L, Raise(t1, Exception))

\* a rejected insert ignored: the handler goes on to the read-back
SucceededInsertIgnoringConflict(L, t, o) ==
    LET row == [booking_id |-> t.locals.booking_id,
                user_id |-> t.booking_data[1].user_id,
                status |-> "succeeded",
                gateway_payment_id |-> t.locals.stripe_payment_intent_id,
                amount |-> t.locals.amount,
                currency |-> t.locals.currency,
                payment_gateway |-> None]
        t1 == [t EXCEPT !.branch = "insert"]
    IN  IF ~InsertAccepted(L, row)
        THEN StepResult(L, Goto([t1 EXCEPT !.rejected = TRUE], "s_read_back"))
        ELSE CASE o = "ok" ->
                   StepResult(InsertPayment(L, row), Goto(t1, "s_read_back"))
               [] o = "lost" ->
                   StepResult(InsertPayment(L, row), Raise(t1, Exception))
               [] OTHER -> StepResult(L, Raise(t1, Exception))

\* the Payment row given the user_id of the event's metadata
SucceededInsertMetadataUser(L, t, o) ==
    LET row == [booking_id |-> t.locals.booking_id,
                user_id |-> t.request.event.object.metadata.user_id,
                status |-> "succeeded",
                gateway_payment_id |-> t.locals.stripe_payment_intent_id,
                amount |-> t.locals.amount,
                currency |-> t.locals.currency,
                payment_gateway |-> None]
        t1 == [t EXCEPT !.branch = "insert"]
    IN  IF ~InsertAccepted(L, row)
        THEN StepResult(L, Raise([t1 EXCEPT !.rejected = TRUE], Exception))
        ELSE CASE o = "ok" ->
                   StepResult(InsertPayment(L, row), Goto(t1, "s_read_back"))
               [] o = "lost" ->
                   StepResult(InsertPayment(L, row), Raise(t1, Exception))
               [] OTHER -> StepResult(L, Raise(t1, Exception))

SucceededInsertPayment(L, t, o) ==
    LET row == [booking_id |-> t.locals.booking_id,
                user_id |-> t.booking_data[1].user_id,
                status |-> "succeeded",
                gateway_payment_id |-> t.locals.stripe_payment_intent_id,
                amount |-> t.locals.amount,
                currency |-> t.locals.currency,
                payment_gateway |-> None]
        t1 == [t EXCEPT !.branch = "insert"]
    IN  IF ~InsertAccepted(L, row)
        THEN StepResult(L, Raise([t1 EXCEPT !.rejected = TRUE], Exception))
        ELSE CASE o = "ok" ->
                   StepResult(InsertPayment(L, row), Goto(t1, "s_read_back"))
               [] o = "lost" ->
                   StepResult(InsertPayment(L, row), Raise(t1, Exception))
               [] OTHER -> StepResult(L, Raise(t1, Exception))

\* the read-back without the filter on booking_id: the newest row
SucceededReadBackLatest(L, t, o) ==
    IF o # "ok" \/ Len(L.payments) = 0
    THEN StepResult(L, Raise(t, HTTPException(500,
             "Unexpected error searching for inserted payment")))
    ELSE StepResult(L,
             [t EXCEPT !.pc = "s_update_booking",
                       !.payment_record_id = Len(L.payments)])

SucceededReadBack(L, t, o) ==
    LET found == SelectPaymentIds(L, t.locals.booking_id)
    IN  IF o # "ok" \/ Cardinality(found) # 1
        THEN StepResult(L, Raise(t, HTTPException(500,
                 "Unexpected error searching for inserted payment")))
        ELSE StepResult(L,
                 [t EXCEPT !.pc = "s_update_booking",
                           !.payment_record_id = CHOOSE i \in found : TRUE])

\* the Booking update without the link to the payment
SucceededUpdateBookingStatusOnly(L, t, o) ==
    LET written == UpdateBooking(L, t.locals.booking_id,
                       [status |-> "confirmed"])
    IN  CASE o = "ok" -> StepResult(written, Return(t, TRUE))
          [] o = "lost" -> StepResult(written, Raise(t, Exception))
          [] OTHER -> StepResult(L, Raise(t, Exception))

\* an error of the Booking update swallowed: the handler returns True
SucceededUpdateBookingSwallowingError(L, t, o) ==
    LET written == UpdateBooking(L, t.locals.booking_id,
                       [status |-> "confirmed",
                        payment_id |-> t.payment_record_id])
    IN  CASE o = "ok" -> StepResult(written, Return(t, TRUE))
          [] o = "lost" -> StepResult(written, Return(t, TRUE))
          [] OTHER -> StepResult(L, Return(t, TRUE))

SucceededUpdateBooking(L, t, o) ==
    LET written == UpdateBooking(L, t.locals.booking_id,
                       [status |-> "confirmed",
                        payment_id |-> t.payment_record_id])
    IN  CASE o = "ok" -> StepResult(written, Return(t, TRUE))
          [] o = "lost" -> StepResult(written, Raise(t, Exception))
          [] OTHER -> StepResult(L, Raise(t, Exception))

\* ---------------------------------------- _handle_payment_intent_failed
\* an event without booking_id acknowledged as not processed
FailedParseUnprocessed(t) ==
    LET payment_intent == t.request.event.object
        booking_id == IF Has(payment_intent.metadata, "booking_id")
                      THEN payment_intent.metadata.booking_id ELSE None
        locals == [booking_id |-> booking_id,
                   stripe_payment_intent_id |-> payment_intent.id,
                   amount |-> IF Has(payment_intent, "amount")
                              THEN DivideBy100(payment_intent.amount)
                              ELSE Dollars(0, 0),
                   currency |-> IF Has(payment_intent, "currency")
                                THEN payment_intent.currency ELSE "usd"]
        t1 == [t EXCEPT !.locals = locals]
    IN  IF booking_id = None
        THEN Return(t1, FALSE)
        ELSE Goto(t1, "f_fetch_payment")

FailedParse(t) ==
    LET payment_intent == t.request.event.object
        booking_id == IF Has(payment_intent.metadata, "booking_id")
                      THEN payment_intent.metadata.booking_id ELSE None
        locals == [booking_id |-> booking_id,
                   stripe_payment_intent_id |-> payment_intent.id,
                   amount |-> IF Has(payment_intent, "amount")
                              THEN DivideBy100(payment_intent.amount)
                              ELSE Dollars(0, 0),
                   currency |-> IF Has(payment_intent, "currency")
                                THEN payment_intent.currency ELSE "usd"]
        t1 == [t EXCEPT !.locals = locals]
    IN  IF booking_id = None
        THEN Return(t1, TRUE)
        ELSE Goto(t1, "f_fetch_payment")

\* the lookup of the Payment row left out: the handler always inserts
FailedAlwaysInsert(L, t, o) ==
    IF o # "ok"
    THEN StepResult(L, Raise(t, Exception))
    ELSE StepResult(L, Goto(t, "f_fetch_booking_user"))

FailedFetchPayment(L, t, o) ==
    LET found == SelectPaymentIds(L, t.locals.booking_id)
    IN  IF o # "ok" \/ Cardinality(found) > 1
        THEN StepResult(L, Raise(t, Exception))
        ELSE IF found # {}
        THEN StepResult(L,
                 [t EXCEPT !.pc = "f_update_payment",
                           !.payment_record_id = CHOOSE i \in found : TRUE])
        ELSE StepResult(L, Goto(t, "f_fetch_booking_user"))

\* a recency guard: a succeeded Payment is not set back to failed
FailedUpdateUnlessSucceeded(L, t, o) ==
    LET written ==
            IF L.payments[t.payment_record_id].status = "succeeded" THEN L
            ELSE UpdatePaymentById(L, t.payment_record_id,
                     [status |-> "failed",
                      gateway_payment_id |-> t.locals.stripe_payment_intent_id])
        t1 == [t EXCEPT !.branch = "update"]
    IN  CASE o = "ok" -> StepResult(written, Goto(t1, "f_update_booking"))
          [] o = "lost" -> StepResult(written, Raise(t1, Exception))
          [] OTHER -> StepResult(L, Raise(t1, Exception))

\* the update of the existing row without the event's intent id
FailedUpdateStatusOnly(L, t, o) ==
    LET written ==
            UpdatePaymentById(L, t.payment_record_id, [status |-> "failed"])
        t1 == [t EXCEPT !.branch = "update"]
    IN  CASE o = "ok" -> StepResult(written, Goto(t1, "f_update_booking"))
          [] o = "lost" -> StepResult(written, Raise(t1, Exception))
          [] OTHER -> StepResult(L, Raise(t1, Exception))

\* the update of the existing row as the succeeded handler writes it,
\* amount and currency included
FailedUpdateWithAmount(L, t, o) ==
    LET written ==
            UpdatePaymentById(L, t.payment_record_id,
                [status |-> "failed",
                 gateway_payment_id |-> t.locals.stripe_payment_intent_id,
                 amount |-> t.locals.amount,
                 currency |-> t.locals.currency])
        t1 == [t EXCEPT !.branch = "update"]
    IN  CASE o = "ok" -> StepResult(written, Goto(t1, "f_update_booking"))
          [] o = "lost" -> StepResult(written, Raise(t1, Exception))
          [] OTHER -> StepResult(L, Raise(t1, Exception))

FailedUpdatePayment(L, t, o) ==
    LET written ==
            UpdatePaymentById(L, t.payment_record_id,
                [status |-> "failed",
                 gateway_payment_id |-> t.locals.stripe_payment_intent_id])
        t1 == [t EXCEPT !.branch = "update"]
    IN  CASE o = "ok" -> StepResult(written, Goto(t1, "f_update_booking"))
          [] o = "lost" -> StepResult(written, Raise(t1, Exception))
          [] OTHER -> StepResult(L, Raise(t1, Exception))

\* the test of the Booking's user_id left out
FailedFetchBookingAnyUser(L, t, o) ==
    LET booking_user_data == SelectBooking(L, {"user_id"}, t.locals.booking_id)
    IN  IF o # "ok"
        THEN StepResult(L, Raise(t, Exception))
        ELSE IF booking_user_data = <<>>
        THEN StepResult(L, Return(t, TRUE))
        ELSE StepResult(L, [t EXCEPT !.pc = "f_insert_payment",
                                     !.booking_data = booking_user_data])

FailedFetchBookingUser(L, t, o) ==
    LET booking_user_data == SelectBooking(L, {"user_id"}, t.locals.booking_id)
    IN  IF o # "ok"
        THEN StepResult(L, Raise(t, Exception))
        ELSE IF booking_user_data = <<>>
        THEN StepResult(L, Return(t, TRUE))
        ELSE IF booking_user_data[1].user_id = None
        THEN StepResult(L, Return(t, TRUE))
        ELSE StepResult(L, [t EXCEPT !.pc = "f_insert_payment",
                                     !.booking_data = booking_user_data])

\* the Payment row given the user_id of the event's metadata
FailedInsertMetadataUser(L, t, o) ==
    LET row == [booking_id |-> t.locals.booking_id,
                user_id |-> t.request.event.object.metadata.user_id,
                status |-> "failed",
                gateway_payment_id |-> t.locals.stripe_payment_intent_id,
                amount |-> t.locals.amount,
                currency |-> t.locals.currency,
                payment_gateway |-> None]
        t1 == [t EXCEPT !.branch = "insert"]
    IN  IF ~InsertAccepted(L, row)
        THEN StepResult(L, Raise([t1 EXCEPT !.rejected = TRUE], Exception))
        ELSE CASE o = "ok" ->
                   StepResult(InsertPayment(L, row), Goto(t1, "f_read_back"))
               [] o = "lost" ->
                   StepResult(InsertPayment(L, row), Raise(t1, Exception))
               [] OTHER -> StepResult(L, Raise(t1, Exception))

FailedInsertPayment(L, t, o) ==
    LET row == [booking_id |-> t.locals.booking_id,
                user_id |-> t.booking_data[1].user_id,
                status |-> "failed",
                gateway_payment_id |-> t.locals.stripe_payment_intent_id,
                amount |-> t.locals.amount,
                currency |-> t.locals.currency,
                payment_gateway |-> None]
        t1 == [t EXCEPT !.branch = "insert"]
    IN  IF ~InsertAccepted(L, row)
        THEN StepResult(L, Raise([t1 EXCEPT !.rejected = TRUE], Exception))
        ELSE CASE o = "ok" ->
                   StepResult(InsertPayment(L, row), Goto(t1, "f_read_back"))
               [] o = "lost" ->
                   StepResult(InsertPayment(L, row), Raise(t1, Exception))
               [] OTHER -> StepResult(L, Raise(t1, Exception))

\* a failed read-back taken for a success: the handler goes on
FailedReadBackGuessingSuccess(L, t, o) ==
    LET found == SelectPaymentIds(L, t.locals.booking_id)
    IN  IF o # "ok" \/ Cardinality(found) # 1
        THEN StepResult(L, Goto(t, "f_update_booking"))
        ELSE StepResult(L,
                 [t EXCEPT !.pc = "f_update_booking",
                           !.payment_record_id = CHOOSE i \in found : TRUE])

FailedReadBack(L, t, o) ==
    LET found == SelectPaymentIds(L, t.locals.booking_id)
    IN  IF o # "ok" \/ Cardinality(found) # 1
        THEN StepResult(L, Raise(t, HTTPException(500,
                 "Unexpected error searching for inserted failed payment")))
        ELSE StepResult(L,
                 [t EXCEPT !.pc = "f_update_booking",
                           !.payment_record_id = CHOOSE i \in found : TRUE])

FailedUpdateBooking(L, t, o) ==
    LET written == UpdateBooking(L, t.locals.booking_id,
                       [status |-> "payment_failed",
                        payment_id |-> t.payment_record_id])
    IN  CASE o = "ok" -> StepResult(written, Return(t, TRUE))
          [] o = "lost" -> StepResult(written, Raise(t, Exception))
          [] OTHER -> StepResult(L, Raise(t, Exception))

\* --------------------------------------------------------- stripe_webhook
Respond(t, response) == [t EXCEPT !.pc = "responded", !.resp = response]

\* an event type without handler left with processed = False
StripeWebhookDispatchUnhandledUnprocessed(secret, t) ==
    LET admission == t.request.admission
        event_type == t.request.event.type
    IN  IF secret = None
        THEN Respond(t, JSONResponse(500,
                 "Webhook signing secret not configured.", "", FALSE))
        ELSE IF admission = "ValueError"
        THEN Respond(t, JSONResponse(400, "Invalid payload", "", FALSE))
        ELSE IF admission = "SignatureVerificationError"
        THEN Respond(t, JSONResponse(400, "Invalid signature", "", FALSE))
        ELSE IF admission # "valid"
        THEN Respond(t, JSONResponse(400,
                 "Webhook signature verification failed.", "", FALSE))
        ELSE IF event_type = "payment_intent.succeeded"
        THEN Goto(t, "s_parse")
        ELSE IF event_type = "payment_intent.payment_failed"
        THEN Goto(t, "f_parse")
        ELSE Return(t, FALSE)

\* the verification of the signature left out: every body is dispatched
StripeWebhookDispatchUnverified(secret, t) ==
    LET event_type == t.request.event.type
    IN  IF secret = None
        THEN Respond(t, JSONResponse(500,
                 "Webhook signing secret not configured.", "", FALSE))
        ELSE IF event_type = "payment_intent.succeeded"
        THEN Goto(t, "s_parse")
        ELSE IF event_type = "payment_intent.payment_failed"
        THEN Goto(t, "f_parse")
        ELSE Return(t, TRUE)

\* the test of the signing secret left out: verification goes ahead
StripeWebhookDispatchWithoutSecretCheck(secret, t) ==
    LET admission == t.request.admission
        event_type == t.request.event.type
    IN  IF admission = "ValueError"
        THEN Respond(t, JSONResponse(400, "Invalid payload", "", FALSE))
        ELSE IF admission = "SignatureVerificationError"
        THEN Respond(t, JSONResponse(400, "Invalid signature", "", FALSE))
        ELSE IF admission # "valid"
        THEN Respond(t, JSONResponse(400,
                 "Webhook signature verification failed.", "", FALSE))
        ELSE IF event_type = "payment_intent.succeeded"
        THEN Goto(t, "s_parse")
        ELSE IF event_type = "payment_intent.payment_failed"
        THEN Goto(t, "f_parse")
        ELSE Return(t, TRUE)

\* admission of the request and dispatch on the event type
StripeWebhookDispatch(secret, t) ==
    LET admission == t.request.admission
        event_type == t.request.event.type
    IN  IF secret = None
        THEN Respond(t, JSONResponse(500,
                 "Webhook signing secret not configured.", "", FALSE))
        ELSE IF admission = "ValueError"
        THEN Respond(t, JSONResponse(400, "Invalid payload", "", FALSE))
        ELSE IF admission = "SignatureVerificationError"
        THEN Respond(t, JSONResponse(400, "Invalid signature", "", FALSE))
        ELSE IF admission # "valid"
        THEN Respond(t, JSONResponse(400,
                 "Webhook signature verification failed.", "", FALSE))
        ELSE IF event_type = "payment_intent.succeeded"
        THEN Goto(t, "s_parse")
        ELSE IF event_type = "payment_intent.payment_failed"
        THEN Goto(t, "f_parse")
        ELSE Return(t, TRUE)

\* every outcome of the handler acknowledged with 200
StripeWebhookAlways200(t) ==
    Respond(t, JSONResponse(200, "", t.request.event.type, TRUE))

\* an exception of the handler passed on with the status of a client error
StripeWebhookResponseClientError(t) ==
    IF t.pc = "w_return"
    THEN Respond(t, JSONResponse(200, "", t.request.event.type, t.result))
    ELSE IF t.raised.type = "HTTPException"
    THEN Respond(t, JSONResponse(t.raised.status_code, t.raised.detail,
                                 "", FALSE))
    ELSE Respond(t, JSONResponse(400,
             "An unexpected error occurred during webhook processing.",
             "", FALSE))

\* every error of the handler answered with the detail of the endpoint
StripeWebhookResponseGenericDetail(t) ==
    IF t.pc = "w_return"
    THEN Respond(t, JSONResponse(200, "", t.request.event.type, t.result))
    ELSE Respond(t, JSONResponse(500,
             "An unexpected error occurred during webhook processing.",
             "", FALSE))

\* the handler returned or raised: the response of the endpoint
StripeWebhookResponse(t) ==
    IF t.pc = "w_return"
    THEN Respond(t, JSONResponse(200, "", t.request.event.type, t.result))
    ELSE IF t.raised.type = "HTTPException"
    THEN Respond(t, JSONResponse(t.raised.status_code, t.raised.detail,
                                 "", FALSE))
    ELSE Respond(t, JSONResponse(500,
             "An unexpected error occurred during webhook processing.",
             "", FALSE))

\* -------------------------------------------------- create_payment_intent
\* except Exception as e: raise HTTPException(500, str(e))
IntentError(t) == Respond(t, JSONResponse(500, "str(e)", "", FALSE))

\* the Stripe calls: customer, ephemeral key and payment intent; created is
\* the id of the new payment intent, None when a Stripe call raised
CreatePaymentIntentStripe(L, t, created) ==
    IF created = None
    THEN StepResult(L, IntentError(t))
    ELSE StepResult(L,
             [t EXCEPT !.pc = "i_fetch_payment",
                       !.locals = [booking_id |-> t.request.bookingId,
                                   stripe_payment_intent_id |-> created,
                                   amount |-> t.request.amount,
                                   currency |-> t.request.currency]])

\* maybe_single() on no row answers, by the client library's version, with
\* a response whose data is None (o = "ok") or with None (o = "none"), and
\* None has no attribute data
CreatePaymentIntentFetchPayment(L, t, o) ==
    LET found == SelectPaymentIds(L, t.locals.booking_id)
    IN  IF o = "raise" \/ Cardinality(found) > 1
        THEN StepResult(L, IntentError(t))
        ELSE IF found # {}
        THEN StepResult(L, Goto(t, "i_update_payment"))
        ELSE IF o = "none"
        THEN StepResult(L, IntentError(t))
        ELSE StepResult(L, Goto(t, "i_insert_payment"))

\* the update of the existing row also given the request's amount and
\* currency
CreatePaymentIntentUpdateWithAmount(L, t, o) ==
    LET matched == SelectPaymentIds(L, t.locals.booking_id)
        written ==
            UpdatePaymentsByBooking(L, t.locals.booking_id,
                [status |-> "pending",
                 gateway_payment_id |-> t.locals.stripe_payment_intent_id,
                 amount |-> t.locals.amount,
                 currency |-> t.locals.currency])
        t1 == [t EXCEPT !.branch = "update"]
    IN  CASE o = "ok" /\ matched # {} ->
                 StepResult(written, Respond(t1, JSONResponse(200, "", "", FALSE)))
          [] o = "ok" /\ matched = {} -> StepResult(L, IntentError(t1))
          [] o = "lost" -> StepResult(written, IntentError(t1))
          [] OTHER -> StepResult(L, IntentError(t1))

CreatePaymentIntentUpdatePayment(L, t, o) ==
    LET matched == SelectPaymentIds(L, t.locals.booking_id)
        written ==
            UpdatePaymentsByBooking(L, t.locals.booking_id,
                [status |-> "pending",
                 gateway_payment_id |-> t.locals.stripe_payment_intent_id])
        t1 == [t EXCEPT !.branch = "update"]
    IN  CASE o = "ok" /\ matched # {} ->
                 StepResult(written, Respond(t1, JSONResponse(200, "", "", FALSE)))
          [] o = "ok" /\ matched = {} -> StepResult(L, IntentError(t1))
          [] o = "lost" -> StepResult(written, IntentError(t1))
          [] OTHER -> StepResult(L, IntentError(t1))

CreatePaymentIntentInsertPayment(L, t, o) ==
    LET row == [booking_id |-> t.locals.booking_id,
                user_id |-> t.request.user_id,
                status |-> "pending",
                gateway_payment_id |-> t.locals.stripe_payment_intent_id,
                amount |-> t.locals.amount,
                currency |-> t.locals.currency,
                payment_gateway |-> "stripe"]
        inserted == InsertPayment(L, row)
        t1 == [t EXCEPT !.branch = "insert"]
    IN  IF ~InsertAccepted(L, row)
        THEN StepResult(L, IntentError([t1 EXCEPT !.rejected = TRUE]))
        ELSE CASE o = "ok" ->
                   StepResult(inserted,
                       [t1 EXCEPT !.pc = "i_update_booking",
                                  !.payment_record_id = Len(inserted.payments)])
               [] o = "lost" -> StepResult(inserted, IntentError(t1))
               [] OTHER -> StepResult(L, IntentError(t1))

\* the link to the new Payment written together with status pending
CreatePaymentIntentUpdateBookingAndStatus(L, t, o) ==
    LET written == UpdateBooking(L, t.locals.booking_id,
                       [status |-> "pending",
                        payment_id |-> t.payment_record_id])
    IN  CASE o = "ok" ->
                 StepResult(written, Respond(t, JSONResponse(200, "", "", FALSE)))
          [] o = "lost" -> StepResult(written, IntentError(t))
          [] OTHER -> StepResult(L, IntentError(t))

CreatePaymentIntentUpdateBooking(L, t, o) ==
    LET written == UpdateBooking(L, t.locals.booking_id,
                       [payment_id |-> t.payment_record_id])
    IN  CASE o = "ok" ->
                 StepResult(written, Respond(t, JSONResponse(200, "", "", FALSE)))
          [] o = "lost" -> StepResult(written, IntentError(t))
          [] OTHER -> StepResult(L, IntentError(t))

\* ---------------------------------------------------------------- actions
TheLedger == Ledger(bookings, payments)

\* what a worker computes on its own between two store round trips: the
\* handler's reading of the event, and the endpoint's response
Local(t) ==
    LET parsed == CASE t.pc = "s_parse" -> SucceededParse(t)
                    [] t.pc = "f_parse" -> FailedParse(t)
                    [] OTHER -> t
    IN  IF parsed.pc \in {"w_return", "w_except"}
        THEN StripeWebhookResponse(parsed) ELSE parsed

\* the step a worker is at, with store outcome o
StepAt(L, t, o) ==
    CASE t.pc = "s_fetch_booking" -> SucceededFetchBooking(L, t, o)
      [] t.pc = "s_fetch_payment" -> SucceededFetchPayment(L, t, o)
      [] t.pc = "s_update_payment" -> SucceededUpdatePayment(L, t, o)
      [] t.pc = "s_insert_payment" -> SucceededInsertPayment(L, t, o)
      [] t.pc = "s_read_back" -> SucceededReadBack(L, t, o)
      [] t.pc = "s_update_booking" -> SucceededUpdateBooking(L, t, o)
      [] t.pc = "f_fetch_payment" -> FailedFetchPayment(L, t, o)
      [] t.pc = "f_update_payment" -> FailedUpdatePayment(L, t, o)
      [] t.pc = "f_fetch_booking_user" -> FailedFetchBookingUser(L, t, o)
      [] t.pc = "f_insert_payment" -> FailedInsertPayment(L, t, o)
      [] t.pc = "f_read_back" -> FailedReadBack(L, t, o)
      [] t.pc = "f_update_booking" -> FailedUpdateBooking(L, t, o)
      [] t.pc = "i_fetch_payment" -> CreatePaymentIntentFetchPayment(L, t, o)
      [] t.pc = "i_update_payment" -> CreatePaymentIntentUpdatePayment(L, t, o)
      [] t.pc = "i_insert_payment" -> CreatePaymentIntentInsertPayment(L, t, o)
      [] t.pc = "i_update_booking" -> CreatePaymentIntentUpdateBooking(L, t, o)
      [] OTHER -> StepResult(L, t)

WebhookTask(secret, request) ==
    Local(StripeWebhookDispatch(secret,
              [IdleTask EXCEPT !.op = "webhook", !.request = request]))

IntentTask(request, created) ==
    CreatePaymentIntentStripe(TheLedger,
        [IdleTask EXCEPT !.op = "intent", !.request = request], created).t

Active(t) == t.pc \notin {"idle", "responded"}
Faulty(o) == o \in {"raise", "lost"}

\* worker w performs the store round trip it is at, with outcome o
Perform(w, o) ==
    LET r == StepAt(TheLedger, task[w], o)
    IN  /\ Faulty(o) => faults < MaxFaults
        /\ bookings' = r.L.bookings
        /\ payments' = r.L.payments
        /\ task' = [task EXCEPT ![w] = Local(r.t)]
        /\ faults' = IF Faulty(o) THEN faults + 1 ELSE faults
        /\ UNCHANGED webhook_secret

StripeWebhook(w, requests) ==
    /\ task[w].pc = "idle"
    /\ \E request \in requests :
          task' = [task EXCEPT ![w] = WebhookTask(webhook_secret, request)]
    /\ UNCHANGED <<bookings, payments, webhook_secret, faults>>

HandleSucceededFetchBooking(w) ==
    /\ task[w].pc = "s_fetch_booking"
    /\ \E o \in ReadOutcomes : Perform(w, o)

HandleSucceededFetchPayment(w) ==
    /\ task[w].pc = "s_fetch_payment"
    /\ \E o \in ReadOutcomes : Perform(w, o)

HandleSucceededUpdatePayment(w) ==
    /\ task[w].pc = "s_update_payment"
    /\ \E o \in StoreOutcomes : Perform(w, o)

HandleSucceededInsertPayment(w) ==
    /\ task[w].pc = "s_insert_payment"
    /\ Len(payments) < MaxPayments
    /\ \E o \in StoreOutcomes : Perform(w, o)

HandleSucceededReadBack(w) ==
    /\ task[w].pc = "s_read_back"
    /\ \E o \in ReadOutcomes : Perform(w, o)

HandleSucceededUpdateBooking(w) ==
    /\ task[w].pc = "s_update_booking"
    /\ \E o \in StoreOutcomes : Perform(w, o)

HandleFailedFetchPayment(w) ==
    /\ task[w].pc = "f_fetch_payment"
    /\ \E o \in ReadOutcomes : Perform(w, o)

HandleFailedUpdatePayment(w) ==
    /\ task[w].pc = "f_update_payment"
    /\ \E o \in StoreOutcomes : Perform(w, o)

HandleFailedFetchBookingUser(w) ==
    /\ task[w].pc = "f_fetch_booking_user"
    /\ \E o \in ReadOutcomes : Perform(w, o)

HandleFailedInsertPayment(w) ==
    /\ task[w].pc = "f_insert_payment"
    /\ Len(payments) < MaxPayments
    /\ \E o \in StoreOutcomes : Perform(w, o)

HandleFailedReadBack(w) ==
    /\ task[w].pc = "f_read_back"
    /\ \E o \in ReadOutcomes : Perform(w, o)

HandleFailedUpdateBooking(w) ==
    /\ task[w].pc = "f_update_booking"
    /\ \E o \in StoreOutcomes : Perform(w, o)

CreatePaymentIntent(w, requests) ==
    /\ task[w].pc = "idle"
    /\ \E request \in requests, created \in CreatedIntentIds \cup {None} :
          task' = [task EXCEPT ![w] = IntentTask(request, created)]
    /\ UNCHANGED <<bookings, payments, webhook_secret, faults>>

CreatePaymentIntentSelect(w) ==
    /\ task[w].pc = "i_fetch_payment"
    /\ \E o \in ReadOutcomes \cup {"none"} : Perform(w, o)

CreatePaymentIntentUpdate(w) ==
    /\ task[w].pc = "i_update_payment"
    /\ \E o \in StoreOutcomes : Perform(w, o)

CreatePaymentIntentInsert(w) ==
    /\ task[w].pc = "i_insert_payment"
    /\ Len(payments) < MaxPayments
    /\ \E o \in StoreOutcomes : Perform(w, o)

CreatePaymentIntentLink(w) ==
    /\ task[w].pc = "i_update_booking"
    /\ \E o \in StoreOutcomes : Perform(w, o)

\* the response has been sent: the worker is free again
Finish(w) ==
    /\ task[w].pc = "responded"
    /\ task' = [task EXCEPT ![w] = IdleTask]
    /\ UNCHANGED <<bookings, payments, webhook_secret, faults>>

\* the gateway delivers an event again after a 500
GatewayRedeliver(w) ==
    /\ task[w].pc = "responded"
    /\ task[w].op = "webhook"
    /\ task[w].resp.status_code = 500
    /\ task' = [task EXCEPT ![w] =
                   WebhookTask(webhook_secret, task[w].request)]
    /\ UNCHANGED <<bookings, payments, webhook_secret, faults>>

\* a store round trip of a request in progress
SucceededStep(w) ==
    \/ HandleSucceededFetchBooking(w)
    \/ HandleSucceededFetchPayment(w)
    \/ HandleSucceededUpdatePayment(w)
    \/ HandleSucceededInsertPayment(w)
    \/ HandleSucceededReadBack(w)
    \/ HandleSucceededUpdateBooking(w)

FailedStep(w) ==
    \/ HandleFailedFetchPayment(w)
    \/ HandleFailedUpdatePayment(w)
    \/ HandleFailedFetchBookingUser(w)
    \/ HandleFailedInsertPayment(w)
    \/ HandleFailedReadBack(w)
    \/ HandleFailedUpdateBooking(w)

IntentStep(w) ==
    \/ CreatePaymentIntentSelect(w)
    \/ CreatePaymentIntentUpdate(w)
    \/ CreatePaymentIntentInsert(w)
    \/ CreatePaymentIntentLink(w)

HandlerStep(w) == SucceededStep(w) \/ FailedStep(w) \/ IntentStep(w)

\* ---------------------------------------- concurrent requests on a booking
\* the requests that reach the store for the existing booking
RaceWebhookRequests ==
    { r \in WebhookRequests :
        /\ r.admission = "valid"
        /\ r.event.type # "charge.refunded"
        /\ Has(r.event.object.metadata, "booking_id")
        /\ r.event.object.metadata.booking_id = "B1" }

RaceIntentRequests == { r \in IntentRequests : r.bookingId = "B1" }

Init ==
    /\ bookings = [b \in {"B1"} |->
                      [user_id |-> "u1", total_price |-> "50.00",
                       status |-> "pending", payment_id |-> NoId]]
    /\ payments = <<>>
    /\ task = [w \in Workers |-> IdleTask]
    /\ webhook_secret = "whsec"
    /\ faults = 0

\* the workers are interchangeable: a request goes to the first free one
FirstFree(w) == \A v \in Workers : task[v].pc = "idle" => v = w \/ w = "w1"

Next ==
    \E w \in Workers :
        \/ FirstFree(w) /\ StripeWebhook(w, RaceWebhookRequests)
        \/ FirstFree(w) /\ CreatePaymentIntent(w, RaceIntentRequests)
        \/ HandlerStep(w)
        \/ Finish(w)
        \/ GatewayRedeliver(w)

Spec == Init /\ [][Next]_vars

\* ------------------------------------------- one request after the other
SeqWorkers == {"w1"}

InitSeq ==
    /\ \E row \in InitialBookingRows : bookings = [b \in {"B1"} |-> row]
    /\ payments = <<>>
    /\ task = [w \in Workers |-> IdleTask]
    /\ webhook_secret \in {"whsec", None}
    /\ faults = 0

NextSeq ==
    \E w \in SeqWorkers :
        \/ StripeWebhook(w, WebhookRequests)
        \/ CreatePaymentIntent(w, IntentRequests)
        \/ HandlerStep(w)
        \/ Finish(w)
        \/ GatewayRedeliver(w)

SeqSpec == InitSeq /\ [][NextSeq]_vars

\* ------------------------------------------------ webhook deliveries only
NextWebhooks ==
    \E w \in Workers :
        \/ FirstFree(w) /\ StripeWebhook(w, RaceWebhookRequests)
        \/ SucceededStep(w)
        \/ FailedStep(w)
        \/ Finish(w)
        \/ GatewayRedeliver(w)

WebhookSpec == Init /\ [][NextWebhooks]_vars

\* ------------------------------------------- two bookings, one event each
\* the events that have a handler
HandledEvents ==
    { e \in Events : e.type \in {"payment_intent.succeeded",
                                  "payment_intent.payment_failed"} }

\* a succeeded event for B1 and a failed event for B2
LinkWebhookRequests ==
    { r \in WebhookRequests :
        /\ r.admission = "valid"
        /\ r.event \in HandledEvents
        /\ r.event.object.id = "pi_1"
        /\ Has(r.event.object.metadata, "booking_id")
        /\ (r.event.type = "payment_intent.succeeded")
           = (r.event.object.metadata.booking_id = "B1") }

InitLink ==
    /\ bookings = [b \in BookingIds |->
                      [user_id |-> "u1", total_price |-> "50.00",
                       status |-> "pending", payment_id |-> NoId]]
    /\ payments = <<>>
    /\ task = [w \in Workers |-> IdleTask]
    /\ webhook_secret = "whsec"
    /\ faults = 0

NextLink ==
    \E w \in Workers :
        \/ FirstFree(w) /\ StripeWebhook(w, LinkWebhookRequests)
        \/ FirstFree(w) /\ CreatePaymentIntent(w, IntentRequests)
        \/ HandlerStep(w)
        \/ Finish(w)

LinkSpec == InitLink /\ [][NextLink]_vars

\* ------------------------------------------ the legacy module src/main.py
\* src/main.py binds APIError to postgrest's class: an error of the store
\* is caught by the except APIError clauses of the guarded calls, which
\* raise HTTPException(500) with a detail of their own
LegacySucceededParse(t) ==
    LET payment_intent == t.request.event.object
        booking_id == IF Has(payment_intent.metadata, "booking_id")
                      THEN payment_intent.metadata.booking_id ELSE None
        locals == [booking_id |-> booking_id,
                   stripe_payment_intent_id |-> payment_intent.id,
                   amount |-> DivideBy100(payment_intent.amount),
                   currency |-> payment_intent.currency]
        t1 == [t EXCEPT !.locals = locals]
    IN  IF booking_id = None
        THEN Return(t1, TRUE)
        ELSE Goto(t1, "s_fetch_booking")

LegacySucceededFetchBooking(L, t, o) ==
    LET booking_data == SelectBooking(L, {"id", "user_id", "total_price"},
                                       t.locals.booking_id)
    IN  IF o # "ok"
        THEN StepResult(L, Raise(t,
                 HTTPException(500, "Database error fetching booking")))
        ELSE IF booking_data = <<>>
        THEN StepResult(L, Return(t, TRUE))
        ELSE StepResult(L,
                 [t EXCEPT !.pc = "s_fetch_payment",
                           !.booking_data = booking_data,
                           !.warning = AmountWarning(booking_data[1],
                                                     t.locals.amount)])

LegacySucceededFetchPayment(L, t, o) ==
    LET found == SelectPaymentIds(L, t.locals.booking_id)
    IN  IF o # "ok" \/ Cardinality(found) > 1
        THEN StepResult(L, Raise(t,
                 HTTPException(500, "Database error fetching payment")))
        ELSE IF found # {}
        THEN StepResult(L,
                 [t EXCEPT !.pc = "s_update_payment",
                           !.payment_record_id = CHOOSE i \in found : TRUE])
        ELSE StepResult(L, Goto(t, "s_insert_payment"))

LegacySucceededUpdatePayment(L, t, o) ==
    LET written ==
            UpdatePaymentById(L, t.payment_record_id,
                [status |-> "succeeded",
                 gateway_payment_id |-> t.locals.stripe_payment_intent_id,
                 amount |-> t.locals.amount,
                 currency |-> t.locals.currency])
        t1 == [t EXCEPT !.branch = "update"]
    IN  CASE o = "ok" -> StepResult(written, Goto(t1, "s_update_booking"))
          [] o = "lost" -> StepResult(written, Raise(t1, Exception))
          [] OTHER -> StepResult(L, Raise(t1, Exception))

LegacySucceededInsertPayment(L, t, o) ==
    LET row == [booking_id |-> t.locals.booking_id,
                user_id |-> t.booking_data[1].user_id,
                status |-> "succeeded",
                gateway_payment_id |-> t.locals.stripe_payment_intent_id,
                amount |-> t.locals.amount,
                currency |-> t.locals.currency,
                payment_gateway |-> None]
        t1 == [t EXCEPT !.branch = "insert"]
    IN  IF ~InsertAccepted(L, row)
        THEN StepResult(L, Raise([t1 EXCEPT !.rejected = TRUE], Exception))
        ELSE CASE o = "ok" ->
                   StepResult(InsertPayment(L, row), Goto(t1, "s_read_back"))
               [] o = "lost" ->
                   StepResult(InsertPayment(L, row), Raise(t1, Exception))
               [] OTHER -> StepResult(L, Raise(t1, Exception))

\* single() on no row raises APIError PGRST116 '0 rows'
LegacySucceededReadBack(L, t, o) ==
    LET found == SelectPaymentIds(L, t.locals.booking_id)
    IN  IF o # "ok" \/ Cardinality(found) > 1
        THEN StepResult(L, Raise(t, HTTPException(500,
                 "Database error searching for inserted payment")))
        ELSE IF found = {}
        THEN StepResult(L, Raise(t, HTTPException(500,
                 "Database error: Inserted payment record not found (PGRST116).")))
        ELSE StepResult(L,
                 [t EXCEPT !.pc = "s_update_booking",
                           !.payment_record_id = CHOOSE i \in found : TRUE])

LegacySucceededUpdateBooking(L, t, o) ==
    LET written == UpdateBooking(L, t.locals.booking_id,
                       [status |-> "confirmed",
                        payment_id |-> t.payment_record_id])
    IN  CASE o = "ok" -> StepResult(written, Return(t, TRUE))
          [] o = "lost" -> StepResult(written, Raise(t, Exception))
          [] OTHER -> StepResult(L, Raise(t, Exception))

LegacyFailedParse(t) ==
    LET payment_intent == t.request.event.object
        booking_id == IF Has(payment_intent.metadata, "booking_id")
                      THEN payment_intent.metadata.booking_id ELSE None
        locals == [booking_id |-> booking_id,
                   stripe_payment_intent_id |-> payment_intent.id,
                   amount |-> IF Has(payment_intent, "amount")
                              THEN DivideBy100(payment_intent.amount)
                              ELSE Dollars(0, 0),
                   currency |-> IF Has(payment_intent, "currency")
                                THEN payment_intent.currency ELSE "usd"]
        t1 == [t EXCEPT !.locals = locals]
    IN  IF booking_id = None
        THEN Return(t1, TRUE)
        ELSE Goto(t1, "f_fetch_payment")

LegacyFailedFetchPayment(L, t, o) ==
    LET found == SelectPaymentIds(L, t.locals.booking_id)
    IN  IF o # "ok" \/ Cardinality(found) > 1
        THEN StepResult(L, Raise(t, Exception))
        ELSE IF found # {}
        THEN StepResult(L,
                 [t EXCEPT !.pc = "f_update_payment",
                           !.payment_record_id = CHOOSE i \in found : TRUE])
        ELSE StepResult(L, Goto(t, "f_fetch_booking_user"))

LegacyFailedUpdatePayment(L, t, o) ==
    LET written ==
            UpdatePaymentById(L, t.payment_record_id,
                [status |-> "failed",
                 gateway_payment_id |-> t.locals.stripe_payment_intent_id])
        t1 == [t EXCEPT !.branch = "update"]
    IN  CASE o = "ok" -> StepResult(written, Goto(t1, "f_update_booking"))
          [] o = "lost" -> StepResult(written, Raise(t1, Exception))
          [] OTHER -> StepResult(L, Raise(t1, Exception))

LegacyFailedFetchBookingUser(L, t, o) ==
    LET booking_user_data == SelectBooking(L, {"user_id"}, t.locals.booking_id)
    IN  IF o # "ok"
        THEN StepResult(L, Raise(t, Exception))
        ELSE IF booking_user_data = <<>>
        THEN StepResult(L, Return(t, TRUE))
        ELSE IF booking_user_data[1].user_id = None
        THEN StepResult(L, Return(t, TRUE))
        ELSE StepResult(L, [t EXCEPT !.pc = "f_insert_payment",
                                     !.booking_data = booking_user_data])

LegacyFailedInsertPayment(L, t, o) ==
    LET row == [booking_id |-> t.locals.booking_id,
                user_id |-> t.booking_data[1].user_id,
                status |-> "failed",
                gateway_payment_id |-> t.locals.stripe_payment_intent_id,
                amount |-> t.locals.amount,
                currency |-> t.locals.currency,
                payment_gateway |-> None]
        t1 == [t EXCEPT !.branch = "insert"]
    IN  IF ~InsertAccepted(L, row)
        THEN StepResult(L, Raise([t1 EXCEPT !.rejected = TRUE], Exception))
        ELSE CASE o = "ok" ->
                   StepResult(InsertPayment(L, row), Goto(t1, "f_read_back"))
               [] o = "lost" ->
                   StepResult(InsertPayment(L, row), Raise(t1, Exception))
               [] OTHER -> StepResult(L, Raise(t1, Exception))

LegacyFailedReadBack(L, t, o) ==
    LET found == SelectPaymentIds(L, t.locals.booking_id)
    IN  IF o # "ok" \/ Cardinality(found) > 1
        THEN StepResult(L, Raise(t, HTTPException(500,
                 "Database error searching for inserted failed payment")))
        ELSE IF found = {}
        THEN StepResult(L, Raise(t, HTTPException(500,
                 "Database error: Inserted failed payment record not found (PGRST116).")))
        ELSE StepResult(L,
                 [t EXCEPT !.pc = "f_update_booking",
                           !.payment_record_id = CHOOSE i \in found : TRUE])

LegacyFailedUpdateBooking(L, t, o) ==
    LET written == UpdateBooking(L, t.locals.booking_id,
                       [status |-> "payment_failed",
                        payment_id |-> t.payment_record_id])
    IN  CASE o = "ok" -> StepResult(written, Return(t, TRUE))
          [] o = "lost" -> StepResult(written, Raise(t, Exception))
          [] OTHER -> StepResult(L, Raise(t, Exception))

LegacyStripeWebhookDispatch(secret, t) ==
    LET admission == t.request.admission
        event_type == t.request.event.type
    IN  IF secret = None
        THEN Respond(t, JSONResponse(500,
                 "Webhook signing secret not configured.", "", FALSE))
        ELSE IF admission = "ValueError"
        THEN Respond(t, JSONResponse(400, "Invalid payload", "", FALSE))
        ELSE IF admission = "SignatureVerificationError"
        THEN Respond(t, JSONResponse(400, "Invalid signature", "", FALSE))
        ELSE IF admission # "valid"
        THEN Respond(t, JSONResponse(400,
                 "Webhook signature verification failed.", "", FALSE))
        ELSE IF event_type = "payment_intent.succeeded"
        THEN Goto(t, "s_parse")
        ELSE IF event_type = "payment_intent.payment_failed"
        THEN Goto(t, "f_parse")
        ELSE Return(t, TRUE)

LegacyStripeWebhookResponse(t) ==
    IF t.pc = "w_return"
    THEN Respond(t, JSONResponse(200, "", t.request.event.type, t.result))
    ELSE IF t.raised.type = "HTTPException"
    THEN Respond(t, JSONResponse(t.raised.status_code, t.raised.detail,
                                 "", FALSE))
    ELSE Respond(t, JSONResponse(500,
             "An unexpected error occurred during webhook processing.",
             "", FALSE))

\* src/main.py has no lookup of an existing Payment row: after the Stripe
\* calls it inserts
LegacyCreatePaymentIntentStripe(L, t, created) ==
    IF created = None
    THEN StepResult(L, IntentError(t))
    ELSE StepResult(L,
             [t EXCEPT !.pc = "i_insert_payment",
                       !.locals = [booking_id |-> t.request.bookingId,
                                   stripe_payment_intent_id |-> created,
                                   amount |-> t.request.amount,
                                   currency |-> t.request.currency]])

\* insert(...).select('id').single(): the insert answers with the new id
LegacyCreatePaymentIntentInsertPayment(L, t, o) ==
    LET row == [booking_id |-> t.locals.booking_id,
                user_id |-> t.request.user_id,
                status |-> "pending",
                gateway_payment_id |-> t.locals.stripe_payment_intent_id,
                amount |-> t.locals.amount,
                currency |-> t.locals.currency,
                payment_gateway |-> "stripe"]
        inserted == InsertPayment(L, row)
        t1 == [t EXCEPT !.branch = "insert"]
    IN  IF ~InsertAccepted(L, row)
        THEN StepResult(L, IntentError([t1 EXCEPT !.rejected = TRUE]))
        ELSE CASE o = "ok" ->
                   StepResult(inserted,
                       [t1 EXCEPT !.pc = "i_update_booking",
                                  !.payment_record_id = Len(inserted.payments)])
               [] o = "lost" -> StepResult(inserted, IntentError(t1))
               [] OTHER -> StepResult(L, IntentError(t1))

LegacyCreatePaymentIntentUpdateBooking(L, t, o) ==
    LET written == UpdateBooking(L, t.locals.booking_id,
                       [payment_id |-> t.payment_record_id])
    IN  CASE o = "ok" ->
                 StepResult(written, Respond(t, JSONResponse(200, "", "", FALSE)))
          [] o = "lost" -> StepResult(written, IntentError(t))
          [] OTHER -> StepResult(L, IntentError(t))

LegacyLocal(t) ==
    LET parsed == CASE t.pc = "s_parse" -> LegacySucceededParse(t)
                    [] t.pc = "f_parse" -> LegacyFailedParse(t)
                    [] OTHER -> t
    IN  IF parsed.pc \in {"w_return", "w_except"}
        THEN LegacyStripeWebhookResponse(parsed) ELSE parsed

LegacyStepAt(L, t, o) ==
    CASE t.pc = "s_fetch_booking" -> LegacySucceededFetchBooking(L, t, o)
      [] t.pc = "s_fetch_payment" -> LegacySucceededFetchPayment(L, t, o)
      [] t.pc = "s_update_payment" -> LegacySucceededUpdatePayment(L, t, o)
      [] t.pc = "s_insert_payment" -> LegacySucceededInsertPayment(L, t, o)
      [] t.pc = "s_read_back" -> LegacySucceededReadBack(L, t, o)
      [] t.pc = "s_update_booking" -> LegacySucceededUpdateBooking(L, t, o)
      [] t.pc = "f_fetch_payment" -> LegacyFailedFetchPayment(L, t, o)
      [] t.pc = "f_update_payment" -> LegacyFailedUpdatePayment(L, t, o)
      [] t.pc = "f_fetch_booking_user" -> LegacyFailedFetchBookingUser(L, t, o)
      [] t.pc = "f_insert_payment" -> LegacyFailedInsertPayment(L, t, o)
      [] t.pc = "f_read_back" -> LegacyFailedReadBack(L, t, o)
      [] t.pc = "f_update_booking" -> LegacyFailedUpdateBooking(L, t, o)
      [] t.pc = "i_insert_payment" ->
             LegacyCreatePaymentIntentInsertPayment(L, t, o)
      [] t.pc = "i_update_booking" ->
             LegacyCreatePaymentIntentUpdateBooking(L, t, o)
      [] OTHER -> StepResult(L, t)

LegacyWebhookTask(secret, request) ==
    LegacyLocal(LegacyStripeWebhookDispatch(secret,
                    [IdleTask EXCEPT !.op = "webhook", !.request = request]))

\* ------------------------------------------- requests run to completion
RECURSIVE Run(_, _, _)
\* the request of task t run alone and without store faults, from ledger L;
\* lib is what maybe_single() answers on no row in create_payment_intent
Run(L, t, lib) ==
    IF ~Active(t) THEN StepResult(L, t)
    ELSE LET r == StepAt(L, t, IF t.pc = "i_fetch_payment" THEN lib ELSE "ok")
         IN  Run(r.L, Local(r.t), lib)

ApplyEvent(L, event) ==
    Run(L, WebhookTask("whsec", [admission |-> "valid", event |-> event]), "ok")

ApplyIntent(L, request, created, lib) ==
    Run(L, CreatePaymentIntentStripe(L,
               [IdleTask EXCEPT !.op = "intent", !.request = request],
               created).t, lib)

\* the longest handler makes five store round trips
FaultPositions == 0..5

RECURSIVE RunWith(_, _, _, _, _)
\* the request of task t run alone from ledger L, its n-th store round trip
\* from here with outcome o and the others answered (n = 0: all answered);
\* ops collects the store operations issued
RunWith(L, t, n, o, ops) ==
    IF ~Active(t) THEN [L |-> L, t |-> t, ops |-> ops]
    ELSE LET r == StepAt(L, t, IF n = 1 THEN o ELSE "ok")
         IN  RunWith(r.L, Local(r.t), n - 1, o, Append(ops, t.pc))

RECURSIVE LegacyRunWith(_, _, _, _, _)
LegacyRunWith(L, t, n, o, ops) ==
    IF ~Active(t) THEN [L |-> L, t |-> t, ops |-> ops]
    ELSE LET r == LegacyStepAt(L, t, IF n = 1 THEN o ELSE "ok")
         IN  LegacyRunWith(r.L, LegacyLocal(r.t), n - 1, o, Append(ops, t.pc))

LegacyApplyIntent(L, request, created) ==
    LegacyRunWith(L, LegacyCreatePaymentIntentStripe(L,
                         [IdleTask EXCEPT !.op = "intent", !.request = request],
                         created).t, 0, "ok", <<>>)

BookingIdOf(event) ==
    IF Has(event.object.metadata, "booking_id")
    THEN event.object.metadata.booking_id ELSE None

EventsFor(type, booking_id) ==
    { e \in Events : e.type = type /\ BookingIdOf(e) = booking_id }

Processed(t) ==
    t.pc = "responded" /\ t.resp.status_code = 200 /\ t.resp.processed

\* the ledger before any request: every booking pending, no payment
FreshLedger ==
    Ledger([b \in DOMAIN bookings |->
               [bookings[b] EXCEPT !.status = "pending", !.payment_id = NoId]],
           <<>>)

\* --------------------------- one event, redelivered until it is answered 200
RetryRequests ==
    { r \in RaceWebhookRequests : r.event.type = "payment_intent.succeeded" }

\* the booking is new, or create-payment-intent has given it its pending
\* Payment row
InitRetry ==
    /\ \E row \in InitialBookingRows, request \in RaceIntentRequests,
          created \in CreatedIntentIds, begun \in BOOLEAN :
          LET new == Ledger([b \in {"B1"} |-> row], <<>>)
              L == IF begun
                   THEN ApplyIntent(new, request, created, "ok").L ELSE new
          IN  bookings = L.bookings /\ payments = L.payments
    /\ task = [w \in Workers |-> IdleTask]
    /\ webhook_secret = "whsec"
    /\ faults = 0

NextRetry ==
    \E w \in SeqWorkers :
        \/ StripeWebhook(w, RetryRequests)
        \/ SucceededStep(w)
        \/ GatewayRedeliver(w)

\* a request in progress runs on, and the gateway keeps redelivering
RetrySpec == InitRetry /\ [][NextRetry]_vars /\ WF_vars(NextRetry)

PaymentsOf(L, booking_id) == SelectPaymentIds(L, booking_id)

\* booking_id has exactly one Payment row, and the Booking points to it
LinkedOnce(L, booking_id) ==
    /\ Cardinality(PaymentsOf(L, booking_id)) = 1
    /\ L.bookings[booking_id].payment_id \in PaymentsOf(L, booking_id)

InsertLabels == {"s_insert_payment", "f_insert_payment", "i_insert_payment"}

\* ------------------------------------------------------------------ claims

\* C1: under every interleaving of succeeded handlers, failed handlers and
\* create-payment-intent calls, duplicates and calls that fail midway
\* included, there is at most one Payment row per booking_id.
AtMostOnePaymentPerBooking ==
    \A b \in BookingIds : Cardinality(PaymentsOf(TheLedger, b)) <= 1

\* two requests raced to the insert: one inserted, the other was rejected
RaceToInsert ==
    \E w \in Workers, v \in Workers :
        /\ w # v
        /\ task[w].rejected
        /\ task[v].branch = "insert" /\ ~task[v].rejected
        /\ Cardinality(PaymentsOf(TheLedger, "B1")) = 1

\* C2: the same succeeded event applied twice in a row to an existing
\* booking without a Payment row: the first application inserts the row,
\* the second takes the update branch and inserts nothing; one Payment row
\* and Booking.status = confirmed remain.
SucceededTwiceInsertsOnce ==
    \A b \in DOMAIN bookings :
        \A e \in EventsFor("payment_intent.succeeded", b) :
            PaymentsOf(TheLedger, b) = {} =>
                LET first == ApplyEvent(TheLedger, e)
                    second == ApplyEvent(first.L, e)
                IN  /\ first.t.branch = "insert" /\ Processed(first.t)
                    /\ Cardinality(PaymentsOf(first.L, b)) = 1
                    /\ second.t.branch = "update" /\ Processed(second.t)
                    /\ Len(second.L.payments) = Len(first.L.payments)
                    /\ Cardinality(PaymentsOf(second.L, b)) = 1
                    /\ second.L.bookings[b].status = "confirmed"

\* a worker has answered the second application of a succeeded event to a
\* fresh booking
SucceededAppliedTwice ==
    \E w \in SeqWorkers :
        \E e \in EventsFor("payment_intent.succeeded", "B1") :
            /\ Processed(task[w])
            /\ task[w].request.event = e
            /\ task[w].branch = "update"
            /\ TheLedger = ApplyEvent(ApplyEvent(FreshLedger, e).L, e).L
            /\ Cardinality(PaymentsOf(TheLedger, "B1")) = 1

\* C3: for both webhook handlers, every event and every ledger: processing
\* the event again, any number of times, without store faults, leaves the
\* Booking and Payment rows as the first processing left them, and every
\* processing answers processed:true.
ReapplyingIsIdempotent ==
    \A e \in HandledEvents :
        LET once == ApplyEvent(TheLedger, e)
            twice == ApplyEvent(once.L, e)
            thrice == ApplyEvent(twice.L, e)
        IN  /\ Processed(once.t) /\ Processed(twice.t) /\ Processed(thrice.t)
            /\ twice.L = once.L
            /\ thrice.L = once.L

\* a worker has answered the second application of a failed event to a
\* fresh booking, which the first application gave a Payment row
FailedAppliedTwice ==
    \E w \in SeqWorkers :
        \E e \in EventsFor("payment_intent.payment_failed", "B1") :
            /\ Processed(task[w])
            /\ task[w].request.event = e
            /\ task[w].branch = "update"
            /\ TheLedger = ApplyEvent(FreshLedger, e).L
            /\ TheLedger # FreshLedger

\* C4: for an existing booking without a Payment row, create-payment-intent
\* and a succeeded webhook for that booking, run one after the other in
\* either order, end with exactly one Payment row for the booking and
\* Booking.payment_id equal to its id.
IntentAndWebhookEitherOrder ==
    \A b \in DOMAIN bookings :
        \A e \in EventsFor("payment_intent.succeeded", b) :
            \A request \in { r \in IntentRequests : r.bookingId = b } :
                \A created \in CreatedIntentIds, lib \in {"ok", "none"} :
                    PaymentsOf(TheLedger, b) = {} =>
                        /\ LinkedOnce(ApplyEvent(
                               ApplyIntent(TheLedger, request, created, lib).L,
                               e).L, b)
                        /\ LinkedOnce(ApplyIntent(
                               ApplyEvent(TheLedger, e).L,
                               request, created, lib).L, b)

\* a worker has answered a succeeded event for a booking whose Payment row
\* create-payment-intent had inserted
WebhookAfterIntent ==
    \E w \in SeqWorkers :
        \E e \in EventsFor("payment_intent.succeeded", "B1") :
            \E request \in IntentRequests, created \in CreatedIntentIds :
                /\ Processed(task[w])
                /\ task[w].request.event = e
                /\ task[w].branch = "update"
                /\ TheLedger = ApplyEvent(
                       ApplyIntent(FreshLedger, request, created, "ok").L, e).L
                /\ payments[1].payment_gateway = "stripe"
                /\ LinkedOnce(TheLedger, "B1")

\* C5: when two requests have both read 'no Payment row' for a booking and
\* both attempt the insert, the store rejects the second insert: the loser
\* writes no row and its request ends in a 500, never in a success.
InsertRaceLoserFails ==
    [][\A w \in Workers :
          (/\ task[w].pc \in InsertLabels
           /\ PaymentsOf(TheLedger, task[w].locals.booking_id) # {}
           /\ task'[w] # task[w])
          => (/\ payments' = payments
              /\ bookings' = bookings
              /\ task'[w].rejected
              /\ task'[w].pc = "responded"
              /\ task'[w].resp.status_code = 500)]_vars

\* the loser of a race to the insert has been answered 500
InsertRaceLost ==
    \E w \in Workers, v \in Workers :
        /\ w # v
        /\ task[w].rejected /\ task[w].resp.status_code = 500
        /\ task[v].branch = "insert" /\ ~task[v].rejected
        /\ PaymentsOf(TheLedger, "B1") # {}

\* C6: when the Payment insert of a webhook handler is rejected by the
\* uniqueness constraint, the handler goes on as an update and the webhook
\* answers 200 with processed:true.
RejectedInsertRetriedAsUpdate ==
    \A w \in Workers :
        (task[w].op = "webhook" /\ task[w].rejected
         /\ task[w].pc = "responded")
        => Processed(task[w])

\* C7: a booking handled by webhook handlers only: once a succeeded and a
\* failed handler that ran concurrently have both completed, Booking and
\* Payment agree: confirmed with succeeded, or payment_failed with failed.
StatusesAgree(L, booking_id) ==
    \A i \in PaymentsOf(L, booking_id) :
        \/ /\ L.bookings[booking_id].status = "confirmed"
           /\ L.payments[i].status = "succeeded"
        \/ /\ L.bookings[booking_id].status = "payment_failed"
           /\ L.payments[i].status = "failed"

ConcurrentHandlersEndConsistent ==
    \A w \in Workers, v \in Workers :
        (/\ Processed(task[w]) /\ Processed(task[v])
         /\ task[w].request.event.type = "payment_intent.succeeded"
         /\ task[v].request.event.type = "payment_intent.payment_failed"
         /\ faults = 0)
        => StatusesAgree(TheLedger, "B1")

\* C8: a succeeded and a failed event for the same existing booking,
\* processed one after the other without store faults: the statuses of
\* Booking and Payment are those of the event processed last, whatever was
\* applied before.
LastEventWins ==
    \A b \in DOMAIN bookings :
        \A s \in EventsFor("payment_intent.succeeded", b) :
            \A f \in EventsFor("payment_intent.payment_failed", b) :
                LET sf == ApplyEvent(ApplyEvent(TheLedger, s).L, f).L
                    fs == ApplyEvent(ApplyEvent(TheLedger, f).L, s).L
                IN  /\ sf.bookings[b].status = "payment_failed"
                    /\ Cardinality(PaymentsOf(sf, b)) = 1
                    /\ \A i \in PaymentsOf(sf, b) :
                          sf.payments[i].status = "failed"
                    /\ fs.bookings[b].status = "confirmed"
                    /\ Cardinality(PaymentsOf(fs, b)) = 1
                    /\ \A i \in PaymentsOf(fs, b) :
                          fs.payments[i].status = "succeeded"

\* a worker has answered a failed event that followed a succeeded event on
\* a fresh booking: the confirmed booking is payment_failed again
FailedAfterSucceeded ==
    \E w \in SeqWorkers :
        \E s \in EventsFor("payment_intent.succeeded", "B1") :
            \E f \in EventsFor("payment_intent.payment_failed", "B1") :
                /\ Processed(task[w])
                /\ task[w].request.event = f
                /\ TheLedger = ApplyEvent(ApplyEvent(FreshLedger, s).L, f).L
                /\ payments[1].amount = DivideBy100(s.object.amount)
                /\ payments[1].status = "failed"
                /\ bookings["B1"].status = "payment_failed"

\* C9: once Payment.status is succeeded or failed, no later operation
\* changes it to another status.
TerminalStatusIsFinal ==
    [][\A i \in 1..Len(payments) :
          payments[i].status \in {"succeeded", "failed"}
          => payments'[i].status = payments[i].status]_vars

\* C10: a succeeded event for an existing booking, redelivered by the
\* gateway for as long as a delivery is answered 500, with store faults
\* that come to an end and nothing else interleaved: in the end the ledger
\* holds one Payment row, succeeded, and the Booking is confirmed and
\* points to it; a delivery is answered 200 only when that is so.
Converged ==
    /\ LinkedOnce(TheLedger, "B1")
    /\ \A i \in PaymentsOf(TheLedger, "B1") : payments[i].status = "succeeded"
    /\ bookings["B1"].status = "confirmed"

Answered(status_code) ==
    \E w \in SeqWorkers :
        task[w].pc = "responded" /\ task[w].resp.status_code = status_code

RetryConverges ==
    /\ <>[]Converged
    /\ [](Answered(200) => Converged)

\* the ledger has converged although a store round trip had failed
ConvergedAfterFault == Converged /\ Answered(200) /\ faults > 0

\* C11: a succeeded event for an existing booking without a Payment row
\* creates one Payment row: booking_id of the metadata, user_id of the
\* Booking, status succeeded, gateway_payment_id the id of the event's
\* object, amount its amount / 100, currency its currency; the Booking
\* becomes confirmed with payment_id the id of the new row; the response is
\* 200 with received, event_type payment_intent.succeeded, processed true.
SucceededCreatesPayment ==
    \A b \in DOMAIN bookings :
        \A e \in EventsFor("payment_intent.succeeded", b) :
            PaymentsOf(TheLedger, b) = {} =>
                LET r == ApplyEvent(TheLedger, e)
                    id == Len(payments) + 1
                IN  /\ Len(r.L.payments) = id
                    /\ SubSeq(r.L.payments, 1, Len(payments)) = payments
                    /\ r.L.payments[id].booking_id = b
                    /\ r.L.payments[id].user_id = bookings[b].user_id
                    /\ r.L.payments[id].status = "succeeded"
                    /\ r.L.payments[id].gateway_payment_id = e.object.id
                    /\ r.L.payments[id].amount = DivideBy100(e.object.amount)
                    /\ r.L.payments[id].currency = e.object.currency
                    /\ r.L.bookings =
                          [bookings EXCEPT ![b] =
                              [@ EXCEPT !.status = "confirmed",
                                        !.payment_id = id]]
                    /\ r.t.pc = "responded"
                    /\ r.t.resp = JSONResponse(200, "",
                                      "payment_intent.succeeded", TRUE)

\* a worker has answered a succeeded event for a fresh booking: the row of
\* the event is there, with the user of the Booking
SucceededCreatedPayment ==
    \E w \in SeqWorkers :
        \E e \in EventsFor("payment_intent.succeeded", "B1") :
            /\ Processed(task[w])
            /\ task[w].request.event = e
            /\ task[w].branch = "insert"
            /\ Len(payments) = 1
            /\ payments[1].user_id = "u1"
            /\ payments[1].gateway_payment_id = e.object.id
            /\ bookings["B1"].status = "confirmed"
            /\ bookings["B1"].payment_id = 1

\* C12: a succeeded or failed event whose metadata has no booking_id is
\* answered 200 with processed true; the delivery writes nothing: every
\* Booking and Payment row is as before.
NoBookingId(t) ==
    /\ t.op = "webhook"
    /\ t.request.admission = "valid"
    /\ t.request.event \in HandledEvents
    /\ BookingIdOf(t.request.event) = None

MissingBookingIdIsNoOp ==
    [][\A w \in SeqWorkers :
          (/\ webhook_secret # None
           /\ NoBookingId(task'[w])
           /\ task'[w] # task[w])
          => (/\ Processed(task'[w])
              /\ bookings' = bookings
              /\ payments' = payments)]_vars

\* a failed event without booking_id has been acknowledged while the
\* ledger holds a Payment row
MissingBookingIdAcknowledged ==
    \E w \in SeqWorkers :
        /\ NoBookingId(task[w])
        /\ task[w].request.event.type = "payment_intent.payment_failed"
        /\ Processed(task[w])
        /\ payments # <<>>

\* C13: a succeeded event whose booking_id matches no Booking row is
\* answered with processed true; no Payment row is created and no Booking
\* or Payment row changes, whatever Payment rows the store holds.
UnknownBookingIsNoOp ==
    \A b \in BookingIds \ DOMAIN bookings :
        \A e \in EventsFor("payment_intent.succeeded", b) :
            LET r == ApplyEvent(TheLedger, e)
            IN  /\ Processed(r.t)
                /\ r.t.branch = "none"
                /\ r.L = TheLedger

\* a succeeded event for a booking that does not exist has been
\* acknowledged while the ledger holds a Payment row of another booking
UnknownBookingAcknowledged ==
    \E w \in SeqWorkers :
        /\ task[w].op = "webhook"
        /\ task[w].request.event.type = "payment_intent.succeeded"
        /\ task[w].locals.booking_id \in BookingIds \ DOMAIN bookings
        /\ Processed(task[w])
        /\ payments # <<>>

\* C14: a failed event for a booking_id without Payment row, whose Booking
\* row is missing or has a null user_id, is answered with processed true
\* and writes nothing: no Payment is inserted, no Booking updated.
UnresolvableUser(L, booking_id) ==
    \/ booking_id \notin DOMAIN L.bookings
    \/ L.bookings[booking_id].user_id = None

FailedWithoutUserIsNoOp ==
    \A b \in BookingIds :
        \A e \in EventsFor("payment_intent.payment_failed", b) :
            (PaymentsOf(TheLedger, b) = {} /\ UnresolvableUser(TheLedger, b))
            => LET r == ApplyEvent(TheLedger, e)
               IN  /\ Processed(r.t)
                   /\ r.t.branch = "none"
                   /\ r.L = TheLedger

\* a failed event for a Booking without user_id has been acknowledged and
\* the Booking is still pending, without Payment
FailedWithoutUserAcknowledged ==
    \E w \in SeqWorkers :
        /\ task[w].op = "webhook"
        /\ task[w].request.event.type = "payment_intent.payment_failed"
        /\ task[w].locals.booking_id = "B1"
        /\ Processed(task[w])
        /\ bookings["B1"].user_id = None
        /\ bookings["B1"].status = "pending"
        /\ payments = <<>>

\* C15: the comparison of the amounts never blocks: for every
\* Booking.total_price, null and non-numeric included, and every event
\* amount, a succeeded event for an existing booking leaves the Booking
\* confirmed and its Payment succeeded with the event's amount / 100, the
\* same ledger as when total_price matches the event's amount.
PriceTexts == { row.total_price : row \in InitialBookingRows } \cup {"40.50"}

\* a total_price that matches the amount within 0.01
MatchingPrice(amount) ==
    CHOOSE p \in PriceTexts :
        /\ p # None
        /\ ToFloat(p) # <<>>
        /\ ~AmountMismatch(ToFloat(p)[1], amount)

WithPrice(L, booking_id, price) ==
    Ledger([L.bookings EXCEPT ![booking_id].total_price = price], L.payments)

AmountCheckIsAdvisory ==
    \A b \in DOMAIN bookings :
        \A e \in EventsFor("payment_intent.succeeded", b) :
            LET amount == DivideBy100(e.object.amount)
                r == ApplyEvent(TheLedger, e)
                matching == WithPrice(TheLedger, b, MatchingPrice(amount))
                m == ApplyEvent(matching, e)
            IN  /\ Processed(r.t)
                /\ r.L.bookings[b].status = "confirmed"
                /\ Cardinality(PaymentsOf(r.L, b)) = 1
                /\ \A i \in PaymentsOf(r.L, b) :
                      /\ r.L.payments[i].status = "succeeded"
                      /\ r.L.payments[i].amount = amount
                /\ m.t.warning = "none"
                /\ r.L = WithPrice(m.L, b, bookings[b].total_price)
                /\ r.t.resp = m.t.resp

\* a succeeded event whose amount differs from the Booking's total_price
\* has been processed: the Booking is confirmed, the Payment has the
\* event's amount
MismatchConfirmed ==
    \E w \in SeqWorkers :
        /\ task[w].op = "webhook"
        /\ task[w].warning = "mismatch"
        /\ Processed(task[w])
        /\ bookings["B1"].status = "confirmed"
        /\ bookings["B1"].total_price = "50.00"
        /\ Len(payments) = 1
        /\ payments[1].amount = Dollars(40, 50)
        /\ payments[1].status = "succeeded"

\* C16: an admitted event of a type other than payment_intent.succeeded
\* and payment_intent.payment_failed is answered 200 with processed true,
\* without any store operation: every Booking and Payment row is as before.
Unhandled(t) ==
    /\ t.op = "webhook"
    /\ t.request.admission = "valid"
    /\ t.request.event \notin HandledEvents

UnhandledTypeIsNoOp ==
    [][\A w \in SeqWorkers :
          (/\ webhook_secret # None
           /\ Unhandled(task'[w])
           /\ task'[w] # task[w])
          => (/\ task'[w].pc = "responded"
              /\ task'[w].resp = JSONResponse(200, "",
                                     task'[w].request.event.type, TRUE)
              /\ bookings' = bookings
              /\ payments' = payments)]_vars

\* an event of another type has been acknowledged while the ledger holds a
\* Payment row
UnhandledTypeAcknowledged ==
    \E w \in SeqWorkers :
        /\ Unhandled(task[w])
        /\ task[w].request.event.type = "charge.refunded"
        /\ Processed(task[w])
        /\ payments # <<>>

\* C17: admission comes before reconciliation: a request whose signature
\* verification fails (malformed body, signature mismatch) is answered 400
\* with no handler invoked and no store read or write; a handler runs only
\* for an event that has been admitted.
Unverified(t) ==
    /\ t.op = "webhook"
    /\ t.request.admission # "valid"

AdmissionPrecedesReconciliation ==
    /\ [](\A w \in SeqWorkers :
             (task[w].op = "webhook" /\ Active(task[w]))
             => (webhook_secret # None /\ task[w].request.admission = "valid"))
    /\ [][\A w \in SeqWorkers :
             (/\ webhook_secret # None
              /\ Unverified(task'[w])
              /\ task'[w] # task[w])
             => (/\ task'[w].pc = "responded"
                 /\ task'[w].resp.status_code = 400
                 /\ task'[w].branch = "none"
                 /\ task'[w].locals = NoLocals
                 /\ bookings' = bookings
                 /\ payments' = payments)]_vars

\* a request with a bad signature, whose body is a succeeded event for
\* the pending booking, has been answered 400 and the booking is pending
BadSignatureRefused ==
    \E w \in SeqWorkers :
        /\ Unverified(task[w])
        /\ task[w].request.admission = "SignatureVerificationError"
        /\ task[w].request.event.type = "payment_intent.succeeded"
        /\ task[w].pc = "responded"
        /\ task[w].resp.status_code = 400
        /\ bookings["B1"].status = "pending"
        /\ payments = <<>>

\* C18: every webhook invocation ends in one of the response shapes of the
\* interface: 200 with received, event_type and processed; 400 with detail
\* "Invalid payload" or "Invalid signature"; or 500.  No other status and
\* no other 400 detail is produced.
ResponseShape(t, details) ==
    \/ /\ t.resp.status_code = 200
       /\ t.resp.event_type = t.request.event.type
       /\ t.resp.processed \in BOOLEAN
       /\ t.resp.detail = ""
    \/ /\ t.resp.status_code = 400
       /\ t.resp.detail \in details
    \/ t.resp.status_code = 500

OnlyInterfaceResponses ==
    \A w \in SeqWorkers :
        (task[w].op = "webhook" /\ task[w].pc = "responded")
        => ResponseShape(task[w], {"Invalid payload", "Invalid signature"})

\* C18, amended: the 400 responses have one of three details: "Invalid
\* payload", "Invalid signature", and "Webhook signature verification
\* failed." for any other error raised by the verification.
OnlyEndpointResponses ==
    \A w \in SeqWorkers :
        (task[w].op = "webhook" /\ task[w].pc = "responded")
        => ResponseShape(task[w],
               {"Invalid payload", "Invalid signature",
                "Webhook signature verification failed."})

\* the verification raised an error that is neither of the two named ones
\* and the request has been answered 400 with the third detail
VerificationFailedOtherwise ==
    \E w \in SeqWorkers :
        /\ task[w].op = "webhook"
        /\ task[w].pc = "responded"
        /\ task[w].request.admission = "Exception"
        /\ task[w].resp.status_code = 400
        /\ task[w].resp.detail = "Webhook signature verification failed."

\* C19: when the webhook signing secret is not configured, every webhook
\* request is answered 500, whatever the validity of its body and
\* signature: the signature is not verified, no handler runs and no ledger
\* row changes.
MissingSecretAlwaysFails ==
    [][\A w \in SeqWorkers :
          (/\ webhook_secret = None
           /\ task'[w].op = "webhook"
           /\ task'[w] # task[w])
          => (/\ task'[w].pc = "responded"
              /\ task'[w].resp = JSONResponse(500,
                     "Webhook signing secret not configured.", "", FALSE)
              /\ task'[w].branch = "none"
              /\ task'[w].locals = NoLocals
              /\ bookings' = bookings
              /\ payments' = payments)]_vars

\* without signing secret, a succeeded event with a valid signature for
\* the pending booking has been answered 500 and the booking is pending
ValidEventRefusedWithoutSecret ==
    \E w \in SeqWorkers :
        /\ webhook_secret = None
        /\ task[w].op = "webhook"
        /\ task[w].request.admission = "valid"
        /\ task[w].request.event \in EventsFor("payment_intent.succeeded", "B1")
        /\ task[w].pc = "responded"
        /\ task[w].resp.status_code = 500
        /\ bookings["B1"].status = "pending"

\* C20: a store fault in the succeeded or the failed handler (a lookup, an
\* insert, an update or the read-back raising, the read-back finding no row
\* included) ends the delivery in a 500: a delivery in which a store
\* operation failed is never answered 200.
StoreFaultEndsIn500 ==
    [][\A w \in Workers :
          (/\ task[w].op = "webhook"
           /\ Active(task[w])
           /\ task'[w] # task[w]
           /\ (faults' # faults \/ task'[w].rejected))
          => (/\ task'[w].pc = "responded"
              /\ task'[w].resp.status_code = 500)]_vars

\* the insert of the failed handler was written and then raised: the
\* delivery has been answered 500, the Booking not yet updated
FailedInsertFaultAnswered500 ==
    \E w \in Workers :
        /\ task[w].op = "webhook"
        /\ task[w].request.event.type = "payment_intent.payment_failed"
        /\ task[w].branch = "insert"
        /\ ~task[w].rejected
        /\ task[w].pc = "responded"
        /\ task[w].resp.status_code = 500
        /\ faults > 0
        /\ Len(payments) = 1
        /\ bookings["B1"].status = "pending"

\* C21: the handlers fail fast: after the first store operation that fails
\* a webhook handler performs no further store operation, and a handler
\* invocation that ends in error leaves the Booking row unchanged; when the
\* read-back after a Payment insert fails or finds no row, the response is
\* 500 and Booking.status and Booking.payment_id keep their values.
BookingUpdateLabels == {"s_update_booking", "f_update_booking"}
ReadBackLabels == {"s_read_back", "f_read_back"}

\* worker w takes a step of a webhook handler
HandlerStepOf(w) ==
    /\ task[w].op = "webhook"
    /\ Active(task[w])
    /\ task'[w] # task[w]

EndsInError(t) == t.pc = "responded" /\ t.resp.status_code # 200

FailFastKeepsBooking ==
    [][\A w \in Workers :
          HandlerStepOf(w) =>
              /\ (faults' # faults) => EndsInError(task'[w])
              /\ EndsInError(task'[w]) => bookings' = bookings
              /\ (task[w].pc \in ReadBackLabels /\ faults' # faults)
                 => (task'[w].resp.status_code = 500 /\ bookings' = bookings)]_vars

\* C21, amended: an invocation that ends in error leaves the Booking row
\* unchanged unless the operation that failed is the Booking update itself,
\* the last operation of the handler, which the store may have applied
\* before the error reached the handler.
FailFastBeforeBookingUpdate ==
    [][\A w \in Workers :
          HandlerStepOf(w) =>
              /\ (faults' # faults) => EndsInError(task'[w])
              /\ EndsInError(task'[w])
                 => (bookings' = bookings \/ task[w].pc \in BookingUpdateLabels)
              /\ bookings' # bookings => task[w].pc \in BookingUpdateLabels
              /\ (task[w].pc \in ReadBackLabels /\ faults' # faults)
                 => (task'[w].resp.status_code = 500 /\ bookings' = bookings)]_vars

\* the read-back after the insert of the succeeded handler failed: the
\* delivery has been answered 500, the Payment row is there, and the
\* Booking is pending and not linked
ReadBackFailedBookingKept ==
    \E w \in Workers :
        /\ task[w].op = "webhook"
        /\ task[w].pc = "responded"
        /\ task[w].resp = JSONResponse(500,
               "Unexpected error searching for inserted payment", "", FALSE)
        /\ Len(payments) = 1
        /\ bookings["B1"].status = "pending"
        /\ bookings["B1"].payment_id = NoId

\* C22: after a create-payment-intent call for a booking_id has returned
\* successfully, from any ledger, there is exactly one Payment row for that
\* booking_id, pending, with the id of the new payment intent as
\* gateway_payment_id, and Booking.payment_id is the id of that row; a row
\* is inserted only when there was none, otherwise the row is updated.
IntentSucceeded(t) ==
    t.op = "intent" /\ t.pc = "responded" /\ t.resp.status_code = 200

IntentLeavesPendingLinkedPayment ==
    \A request \in IntentRequests, created \in CreatedIntentIds :
        LET b == request.bookingId
            r == ApplyIntent(TheLedger, request, created, "ok")
        IN  (IntentSucceeded(r.t) /\ \A w \in Workers : ~Active(task[w])) =>
                /\ LinkedOnce(r.L, b)
                /\ \A i \in PaymentsOf(r.L, b) :
                      /\ r.L.payments[i].status = "pending"
                      /\ r.L.payments[i].gateway_payment_id = created
                /\ Len(r.L.payments) =
                      Len(payments)
                      + (IF PaymentsOf(TheLedger, b) = {} THEN 1 ELSE 0)

\* C23: once a Payment row exists, only the webhook handlers change it:
\* create-payment-intent creates a Payment row only with status pending and
\* changes no field of a row that exists; a webhook handler creates a row
\* only with a terminal status, succeeded or failed.
StepOf(w, op) == task[w].op = op /\ task'[w] # task[w]

Created ==
    /\ Len(payments') = Len(payments) + 1
    /\ SubSeq(payments', 1, Len(payments)) = payments

CreatedWithStatus(statuses) ==
    Len(payments') > Len(payments)
    => (Created /\ payments'[Len(payments')].status \in statuses)

IntentOnlyCreatesPayments ==
    [][\A w \in Workers :
          /\ StepOf(w, "intent")
             => /\ CreatedWithStatus({"pending"})
                /\ \A i \in 1..Len(payments) : payments'[i] = payments[i]
          /\ StepOf(w, "webhook")
             => CreatedWithStatus({"succeeded", "failed"})]_vars

\* C23, amended: of a Payment row that exists, create-payment-intent
\* changes status, to pending, and gateway_payment_id, to the id of the
\* new payment intent, and nothing else.
IntentOnlyResetsPayments ==
    [][\A w \in Workers :
          /\ StepOf(w, "intent")
             => /\ CreatedWithStatus({"pending"})
                /\ \A i \in 1..Len(payments) :
                      \/ payments'[i] = payments[i]
                      \/ /\ payments[i].booking_id = task[w].request.bookingId
                         /\ payments'[i] =
                               Merge(payments[i],
                                   [status |-> "pending",
                                    gateway_payment_id |->
                                        task[w].locals.stripe_payment_intent_id])
          /\ StepOf(w, "webhook")
             => CreatedWithStatus({"succeeded", "failed"})]_vars

\* create-payment-intent has set back to pending a Payment row that a
\* webhook handler had created: amount and currency are those of the event
IntentResetWebhookPayment ==
    \E w \in Workers :
        /\ IntentSucceeded(task[w])
        /\ task[w].branch = "update"
        /\ Len(payments) = 1
        /\ payments[1].status = "pending"
        /\ payments[1].gateway_payment_id = task[w].locals.stripe_payment_intent_id
        /\ payments[1].payment_gateway = None
        /\ payments[1].amount = Dollars(40, 50)

\* C24: Booking.status and Booking.payment_id are written only by the
\* webhook handlers: a create-payment-intent call leaves both unchanged.
IntentLeavesBooking ==
    [][\A w \in Workers : StepOf(w, "intent") => bookings' = bookings]_vars

\* C24, amended: a create-payment-intent call leaves Booking.status
\* unchanged, and writes Booking.payment_id only after it has inserted the
\* Payment row, to the id of that row.
IntentOnlyLinksBooking ==
    [][\A w \in Workers :
          StepOf(w, "intent") =>
              \A b \in DOMAIN bookings :
                  \/ bookings'[b] = bookings[b]
                  \/ /\ b = task[w].request.bookingId
                     /\ task[w].pc = "i_update_booking"
                     /\ task[w].branch = "insert"
                     /\ bookings'[b] =
                           [bookings[b] EXCEPT
                               !.payment_id = task[w].payment_record_id]
                     /\ task[w].payment_record_id \in PaymentsOf(TheLedger, b)]_vars

\* a create-payment-intent call has inserted the pending Payment row and
\* linked the Booking to it
IntentLinkedBooking ==
    \E w \in Workers :
        /\ IntentSucceeded(task[w])
        /\ task[w].branch = "insert"
        /\ bookings["B1"].payment_id = task[w].payment_record_id
        /\ bookings["B1"].payment_id # NoId
        /\ payments[bookings["B1"].payment_id].status = "pending"

\* C25: a failed event for a booking_id that has a Payment row sets the
\* row's status to failed and its gateway_payment_id to the id of the
\* event's object, then sets Booking.status to payment_failed and
\* Booking.payment_id to the id of the row, and returns processed true,
\* whatever the status of the row was: pending, succeeded or failed.
FailedUpdatesExistingPayment ==
    \A b \in DOMAIN bookings :
        \A e \in EventsFor("payment_intent.payment_failed", b) :
            \A i \in PaymentsOf(TheLedger, b) :
                LET r == ApplyEvent(TheLedger, e)
                IN  /\ Processed(r.t)
                    /\ r.t.branch = "update"
                    /\ Len(r.L.payments) = Len(payments)
                    /\ r.L.payments[i].status = "failed"
                    /\ r.L.payments[i].gateway_payment_id = e.object.id
                    /\ r.L.bookings[b].status = "payment_failed"
                    /\ r.L.bookings[b].payment_id = i

\* a failed event has been processed for a booking whose pending Payment
\* row create-payment-intent had inserted for another payment intent
FailedUpdatedPendingPayment ==
    \E w \in SeqWorkers :
        \E e \in EventsFor("payment_intent.payment_failed", "B1") :
            \E request \in IntentRequests, created \in CreatedIntentIds :
                /\ Processed(task[w])
                /\ task[w].request.event = e
                /\ e.object.id # created
                /\ Len(payments) = 1
                /\ TheLedger = ApplyEvent(
                       ApplyIntent(FreshLedger, request, created, "ok").L, e).L
                /\ payments[1].payment_gateway = "stripe"
                /\ payments[1].status = "failed"
                /\ payments[1].gateway_payment_id = e.object.id
                /\ bookings["B1"].status = "payment_failed"

\* C26: the Payment row that the failed handler inserts (there was no row
\* and the Booking has a user_id) has the Booking's user_id, never the one
\* of the event's metadata, status failed, amount the event's amount / 100,
\* or 0.0 when the event has no amount, and currency the event's currency,
\* or 'usd' when the event has none.
FailedInsertsPaymentOfBooking ==
    \A b \in DOMAIN bookings :
        \A e \in EventsFor("payment_intent.payment_failed", b) :
            (PaymentsOf(TheLedger, b) = {} /\ bookings[b].user_id # None) =>
                LET r == ApplyEvent(TheLedger, e)
                    id == Len(payments) + 1
                IN  /\ r.t.branch = "insert"
                    /\ Len(r.L.payments) = id
                    /\ r.L.payments[id].booking_id = b
                    /\ r.L.payments[id].user_id = bookings[b].user_id
                    /\ r.L.payments[id].status = "failed"
                    /\ r.L.payments[id].gateway_payment_id = e.object.id
                    /\ r.L.payments[id].amount =
                          (IF Has(e.object, "amount")
                           THEN DivideBy100(e.object.amount) ELSE Dollars(0, 0))
                    /\ r.L.payments[id].currency =
                          (IF Has(e.object, "currency")
                           THEN e.object.currency ELSE "usd")

\* a failed event without amount and currency has been processed for a
\* booking without Payment row: the row has the defaults and the user of
\* the Booking, who is not the user of the metadata
FailedInsertedDefaults ==
    \E w \in SeqWorkers :
        /\ task[w].op = "webhook"
        /\ Processed(task[w])
        /\ task[w].request.event.type = "payment_intent.payment_failed"
        /\ ~Has(task[w].request.event.object, "amount")
        /\ task[w].branch = "insert"
        /\ Len(payments) = 1
        /\ payments[1].user_id = bookings["B1"].user_id
        /\ payments[1].user_id # task[w].request.event.object.metadata.user_id
        /\ payments[1].amount = Dollars(0, 0)
        /\ payments[1].currency = "usd"
        /\ payments[1].status = "failed"

\* C27: an invocation of a webhook handler issues at most one Booking
\* update; it is the last store operation of the invocation, and it is
\* issued only after the Payment row of the booking has been written
\* (updated, or inserted and read back), so that the payment_id written is
\* the id of an existing Payment row of that booking.
BookingUpdateIsLast ==
    [][\A w \in Workers :
          HandlerStepOf(w) =>
              /\ bookings' # bookings => task[w].pc \in BookingUpdateLabels
              /\ task[w].pc \in BookingUpdateLabels =>
                    /\ task'[w].pc = "responded"
                    /\ task[w].branch \in {"update", "insert"}
                    /\ task[w].payment_record_id
                          \in PaymentsOf(TheLedger, task[w].locals.booking_id)
                    /\ \A b \in DOMAIN bookings :
                          bookings'[b] # bookings[b] =>
                              /\ b = task[w].locals.booking_id
                              /\ bookings'[b].payment_id =
                                    task[w].payment_record_id]_vars

\* a failed handler has inserted the Payment row, read it back and then
\* updated the Booking, which points to the row
BookingUpdatedAfterReadBack ==
    \E w \in Workers :
        /\ task[w].op = "webhook"
        /\ task[w].request.event.type = "payment_intent.payment_failed"
        /\ Processed(task[w])
        /\ task[w].branch = "insert"
        /\ task[w].payment_record_id # NoId
        /\ bookings["B1"].payment_id = task[w].payment_record_id
        /\ bookings["B1"].status = "payment_failed"

\* C28: an error raised by a webhook handler reaches the transport boundary
\* unchanged: the dispatcher neither swallows it nor replaces its status or
\* its detail; the response has the status and the detail that the handler
\* raised.
HandlerRaised(t) ==
    t.op = "webhook" /\ t.pc = "responded" /\ t.raised.type # "none"

HandlerErrorsUnchanged ==
    \A w \in SeqWorkers :
        HandlerRaised(task[w]) =>
            /\ task[w].resp.status_code # 200
            /\ task[w].resp.detail = task[w].raised.detail
            /\ task[w].raised.type = "HTTPException"
               => task[w].resp.status_code = task[w].raised.status_code

\* C28, amended: an HTTPException raised by a handler reaches the transport
\* boundary with its status and detail; any other exception is answered
\* 500 with the detail "An unexpected error occurred during webhook
\* processing." in place of its own message.
HandlerErrorsMapped ==
    \A w \in SeqWorkers :
        HandlerRaised(task[w]) =>
            IF task[w].raised.type = "HTTPException"
            THEN /\ task[w].resp.status_code = task[w].raised.status_code
                 /\ task[w].resp.detail = task[w].raised.detail
                 /\ task[w].resp.status_code # 200
            ELSE task[w].resp = JSONResponse(500,
                     "An unexpected error occurred during webhook processing.",
                     "", FALSE)

\* the lookup of the Payment row of the succeeded handler raised: the
\* delivery has been answered with the handler's HTTPException
HandlerHTTPExceptionAnswered ==
    \E w \in SeqWorkers :
        /\ HandlerRaised(task[w])
        /\ task[w].raised =
              HTTPException(500, "Unexpected error fetching payment")
        /\ task[w].resp.status_code = 500
        /\ task[w].resp.detail = "Unexpected error fetching payment"

\* C29: when the failed handler updates an existing Payment row it changes
\* status and gateway_payment_id only: amount, currency, user_id and
\* booking_id of the row keep their values, whereas the succeeded handler
\* also overwrites amount and currency with those of the event.
KeptColumns == {"amount", "currency", "user_id", "booking_id", "payment_gateway"}

FailedUpdateKeepsAmount ==
    \A b \in DOMAIN bookings :
        \A i \in PaymentsOf(TheLedger, b) :
            /\ \A e \in EventsFor("payment_intent.payment_failed", b) :
                  LET r == ApplyEvent(TheLedger, e)
                  IN  /\ r.t.branch = "update"
                      /\ \A c \in KeptColumns :
                            r.L.payments[i][c] = payments[i][c]
                      /\ \A j \in 1..Len(payments) :
                            j # i => r.L.payments[j] = payments[j]
            /\ \A e \in EventsFor("payment_intent.succeeded", b) :
                  LET r == ApplyEvent(TheLedger, e)
                  IN  /\ r.t.branch = "update"
                      /\ r.L.payments[i].amount = DivideBy100(e.object.amount)
                      /\ r.L.payments[i].currency = e.object.currency
                      /\ \A c \in KeptColumns \ {"amount", "currency"} :
                            r.L.payments[i][c] = payments[i][c]

\* a failed event of 40.50 eur has been processed for a booking whose
\* Payment row is of 50.00 usd: the row is failed, with the id of the
\* event's intent, and still of 50.00 usd
FailedUpdateKeptAmount ==
    \E w \in SeqWorkers :
        /\ task[w].op = "webhook"
        /\ Processed(task[w])
        /\ task[w].request.event.type = "payment_intent.payment_failed"
        /\ task[w].branch = "update"
        /\ task[w].locals.amount = Dollars(40, 50)
        /\ task[w].locals.currency = "eur"
        /\ Len(payments) = 1
        /\ payments[1].status = "failed"
        /\ payments[1].gateway_payment_id = task[w].request.event.object.id
        /\ payments[1].amount = Dollars(50, 0)
        /\ payments[1].currency = "usd"

\* C30: link integrity, under every interleaving of webhook handlers and
\* create-payment-intent calls: when Booking.payment_id is not null, a
\* Payment row with that id exists and its booking_id is the id of the
\* Booking.
LinkIntegrity ==
    \A b \in DOMAIN bookings :
        bookings[b].payment_id # NoId =>
            /\ bookings[b].payment_id \in 1..Len(payments)
            /\ payments[bookings[b].payment_id].booking_id = b

\* both bookings are linked, each to its own Payment row, one by a webhook
\* handler and one by create-payment-intent
BothBookingsLinked ==
    /\ Len(payments) = 2
    /\ \A b \in BookingIds : bookings[b].payment_id # NoId
    /\ bookings["B1"].payment_id # bookings["B2"].payment_id
    /\ \E i \in 1..2 : payments[i].status = "pending"
    /\ \E i \in 1..2 : payments[i].status \in {"succeeded", "failed"}

\* C31: every 200 response of the webhook carries processed true: whether
\* the event was reconciled, acknowledged without change or of a type
\* without handler, no delivery is answered 200 with processed false.
WebhookOkIsProcessed ==
    \A w \in SeqWorkers :
        (/\ task[w].op = "webhook"
         /\ task[w].pc = "responded"
         /\ task[w].resp.status_code = 200)
        => /\ task[w].resp.processed = TRUE
           /\ task[w].resp.event_type = task[w].request.event.type

\* a failed event without booking_id has been answered 200 while the ledger
\* holds a Payment row
NoOpAnswered200 ==
    \E w \in SeqWorkers :
        /\ task[w].op = "webhook"
        /\ task[w].pc = "responded"
        /\ task[w].resp.status_code = 200
        /\ task[w].request.event.type = "payment_intent.payment_failed"
        /\ NoBookingId(task[w])
        /\ payments # <<>>

\* C32: the webhook path of src/main.py and that of src/app/api/routes.py
\* are equivalent: from the same ledger, on the same request and with the
\* same store fault, they issue the same store operations, reach the same
\* Booking and Payment rows and answer with the same status code and
\* processed flag; only the detail of an error response differs.
Answer(t) == [t EXCEPT !.resp.detail = "", !.raised.detail = ""]

SameRun(a, b) ==
    /\ a.L = b.L
    /\ a.ops = b.ops
    /\ Answer(a.t) = Answer(b.t)

WebhookPathsEquivalent ==
    /\ \A request \in WebhookRequests :
           Answer(LegacyWebhookTask(webhook_secret, request))
           = Answer(WebhookTask(webhook_secret, request))
    /\ \A w \in SeqWorkers :
           (task[w].op = "webhook" /\ Active(task[w])) =>
               \A n \in FaultPositions, o \in StoreOutcomes :
                   SameRun(LegacyRunWith(TheLedger, task[w], n, o, <<>>),
                           RunWith(TheLedger, task[w], n, o, <<>>))

\* a succeeded event is at the lookup of its Booking, a Payment row is in
\* the ledger, and on a store error there the two modules answer 500 with
\* different details
LegacyAnswersWithOtherDetail ==
    \E w \in SeqWorkers :
        /\ task[w].op = "webhook"
        /\ task[w].pc = "s_fetch_booking"
        /\ payments # <<>>
        /\ LET a == LegacyRunWith(TheLedger, task[w], 1, "raise", <<>>)
               b == RunWith(TheLedger, task[w], 1, "raise", <<>>)
           IN  /\ a.t.resp.status_code = 500
               /\ b.t.resp.status_code = 500
               /\ a.t.resp.detail # b.t.resp.detail
               /\ a.ops = <<"s_fetch_booking">>

\* C33: the create-payment-intent path of src/main.py and that of
\* src/app/api/routes.py are equivalent: from every ledger, with or without
\* a Payment row for the booking_id, a call with the same inputs returns the
\* same status and leaves the same Booking and Payment rows.
IntentPathsEquivalent ==
    (\A w \in Workers : ~Active(task[w])) =>
        \A request \in IntentRequests, created \in CreatedIntentIds \cup {None} :
            LET a == LegacyApplyIntent(TheLedger, request, created)
                b == ApplyIntent(TheLedger, request, created, "ok")
            IN  /\ a.t.resp.status_code = b.t.resp.status_code
                /\ a.L = b.L

====
